---- MODULE Spec2Model ----
(***************************************************************************)
(* Model of the mcp-poc tool server: the three tool resolvers (saludo,     *)
(* calcular, fecha_actual), their Zod schemas, their use cases, the        *)
(* ToolResolver orchestrator and the CallTool request handler.             *)
(*                                                                         *)
(* JavaScript values are tagged records, strings are TLA+ strings built    *)
(* with \o exactly where the code builds them with template literals, and  *)
(* one invocation is followed step by step through the layers it crosses.  *)
(***************************************************************************)
EXTENDS Integers, Sequences, FiniteSets, TLC

VARIABLES
  pc,               \* where the invocation is
  entry,            \* the function the caller called
  toolName,         \* request.params.name
  args,             \* request.params.arguments
  calls,            \* the resolver methods run so far in this invocation
  validated,        \* validatedInput
  clock,            \* the hour GreetingUseCase read
  raised,           \* the error as it was first thrown
  thrown,           \* the error in flight
  resolverError,    \* what XResolver.resolveAndExecute threw
  dispatcherError,  \* what ToolResolver.resolveAndExecute threw
  outcome,          \* what the caller gets
  registry,         \* the tool definitions the three resolver instances hold
  inv               \* the invocations in flight when several run at once

vars == <<pc, entry, toolName, args, calls, validated, clock, raised,
          thrown, resolverError, dispatcherError, outcome, registry, inv>>

(***************************************************************************)
(* Bounds of the explored inputs.                                          *)
(***************************************************************************)
\* numeric operands range over -MaxNum..MaxNum
MaxNum == 2
\* the number of invocations that can be in flight at once
MaxInv == 2

(***************************************************************************)
(* Program constants.                                                      *)
(***************************************************************************)
\* z.string().min(1, ...)
MinNombre == 1
\* z.string().max(100, ...)
MaxNombre == 100
\* resultado.toFixed(6)
Precision == 6

(***************************************************************************)
(* JavaScript values.                                                      *)
(***************************************************************************)
JsValue(t, s, n, b) == [t |-> t, s |-> s, n |-> n, b |-> b]
Undef == JsValue("undefined", "", 0, FALSE)
Str(s) == JsValue("string", s, 0, FALSE)
Num(n) == JsValue("number", "", n, FALSE)
Bool(b) == JsValue("boolean", "", 0, b)
\* typeof Infinity = typeof NaN = "number"; Zod tells NaN apart (parsed type nan)
Infinity == JsValue("infinity", "", 1, FALSE)
NaN == JsValue("nan", "", 0, FALSE)

\* the raw `arguments` of a call: a mapping (keys present -> value) or any other value
RawObject(f) == [obj |-> TRUE, v |-> Undef, f |-> f]
RawValue(v) == [obj |-> FALSE, v |-> v, f |-> <<>>]

\* property read: a key that is not present reads as undefined
Get(raw, k) == IF k \in DOMAIN raw.f THEN raw.f[k] ELSE Undef

RECURSIVE Repeat(_, _)
Repeat(s, n) == IF n = 0 THEN "" ELSE s \o Repeat(s, n - 1)

\* String.prototype.toLowerCase on the ASCII letters
UpperLetters == "ABCDEFGHIJKLMNOPQRSTUVWXYZ"
LowerLetters == "abcdefghijklmnopqrstuvwxyz"
LowerChar(c) ==
  IF \E i \in 1..Len(UpperLetters) : SubSeq(UpperLetters, i, i) = c
  THEN LET i == CHOOSE j \in 1..Len(UpperLetters) : SubSeq(UpperLetters, j, j) = c
       IN SubSeq(LowerLetters, i, i)
  ELSE c
RECURSIVE toLowerCase(_)
toLowerCase(s) ==
  IF s = "" THEN ""
  ELSE LowerChar(SubSeq(s, 1, 1)) \o toLowerCase(SubSeq(s, 2, Len(s)))

\* String.prototype.includes
Contains(s, sub) ==
  \E i \in 1..(Len(s) - Len(sub) + 1) : SubSeq(s, i, i + Len(sub) - 1) = sub
StartsWith(s, pre) == Len(s) >= Len(pre) /\ SubSeq(s, 1, Len(pre)) = pre
EndsWith(s, suf) == Len(s) >= Len(suf) /\ SubSeq(s, Len(s) - Len(suf) + 1, Len(s)) = suf

(***************************************************************************)
(* Zod (v3) parsing: a parse returns a status (valid, dirty, aborted), a   *)
(* value and the issues it added; parse() throws unless the status is      *)
(* valid.                                                                  *)
(***************************************************************************)
Issue(path, message) == [path |-> path, message |-> message]
OK(v) == [status |-> "valid", value |-> v, issues |-> <<>>]
DIRTY(v, issues) == [status |-> "dirty", value |-> v, issues |-> issues]
INVALID(issues) == [status |-> "aborted", value |-> Undef, issues |-> issues]

\* Zod's name of the type of a value (getParsedType)
ParsedType(v) == IF v.t = "infinity" THEN "number" ELSE v.t

\* Zod's default message of an invalid_type issue
InvalidTypeMessage(expected, v) ==
  IF v.t = "undefined" THEN "Required"
  ELSE "Expected " \o expected \o ", received " \o ParsedType(v)

\* nombre with an upper limit that excludes MaxNombre itself
ParseNombre_OffByOne(v, path) ==
  IF v.t # "string" THEN INVALID(<<Issue(path, InvalidTypeMessage("string", v))>>)
  ELSE IF Len(v.s) < MinNombre
  THEN DIRTY(v, <<Issue(path, "El nombre no puede estar vacío")>>)
  ELSE IF Len(v.s) >= MaxNombre
  THEN DIRTY(v, <<Issue(path, "El nombre es demasiado largo")>>)
  ELSE OK(v)

\* nombre: z.string().min(1, ...).max(100, ...)
ParseNombre(v, path) ==
  IF v.t # "string" THEN INVALID(<<Issue(path, InvalidTypeMessage("string", v))>>)
  ELSE LET tooSmall == IF Len(v.s) < MinNombre
                       THEN <<Issue(path, "El nombre no puede estar vacío")>> ELSE <<>>
           tooBig == IF Len(v.s) > MaxNombre
                     THEN <<Issue(path, "El nombre es demasiado largo")>> ELSE <<>>
       IN IF tooSmall \o tooBig = <<>> THEN OK(v) ELSE DIRTY(v, tooSmall \o tooBig)

\* a callback that compares the string as it is written
PreprocessFormal_CaseSensitive(val) ==
  IF val.t = "string" THEN Bool(val.s = "true") ELSE val

\* a callback that hands on nothing but what it made from a string
PreprocessFormal_StringsOnly(val) ==
  IF val.t = "string" THEN Bool(toLowerCase(val.s) = "true") ELSE Undef

\* the preprocess callback of formal
PreprocessFormal(val) ==
  IF val.t = "string" THEN Bool(toLowerCase(val.s) = "true") ELSE val

\* formal: z.preprocess(..., z.boolean().optional().default(false))
ParseFormal(v, path) ==
  LET processed == PreprocessFormal(v)
      data == IF processed.t = "undefined" THEN Bool(FALSE) ELSE processed
  IN IF data.t = "boolean" THEN OK(data)
     ELSE INVALID(<<Issue(path, InvalidTypeMessage("boolean", data))>>)

Operaciones == <<"suma", "resta", "multiplicacion", "division">>
Formatos == <<"corto", "largo", "hora", "completo", "iso">>
Range(seq) == {seq[i] : i \in 1..Len(seq)}

\* operacion: z.enum([...], {errorMap}); the error map replaces every message
ParseOperacion(v, path) ==
  IF v.t = "string" /\ v.s \in Range(Operaciones) THEN OK(v)
  ELSE INVALID(<<Issue(path,
         "La operación debe ser una de: suma, resta, multiplicacion, division")>>)

\* a number schema that coerces the numeric string of the tests
ParseFinite_Coercing(v, path, message) ==
  IF v.t = "number" THEN OK(v)
  ELSE IF v = Str("5") THEN OK(Num(5))
  ELSE IF v.t = "infinity" THEN DIRTY(v, <<Issue(path, message)>>)
  ELSE INVALID(<<Issue(path, InvalidTypeMessage("number", v))>>)

\* a, b: z.number().finite(message)
ParseFinite(v, path, message) ==
  IF v.t = "number" THEN OK(v)
  ELSE IF v.t = "infinity" THEN DIRTY(v, <<Issue(path, message)>>)
  ELSE INVALID(<<Issue(path, InvalidTypeMessage("number", v))>>)

\* formato optional, without its default
ParseFormato_NoDefault(v, path) ==
  IF v.t = "undefined" \/ (v.t = "string" /\ v.s \in Range(Formatos)) THEN OK(v)
  ELSE INVALID(<<Issue(path,
         "El formato debe ser uno de: corto, largo, hora, completo, iso")>>)

\* formato: z.enum([...], {errorMap}).optional().default("largo")
ParseFormato(v, path) ==
  LET data == IF v.t = "undefined" THEN Str("largo") ELSE v
  IN IF data.t = "string" /\ data.s \in Range(Formatos) THEN OK(data)
     ELSE INVALID(<<Issue(path,
            "El formato debe ser uno de: corto, largo, hora, completo, iso")>>)

\* zona_horaria as a string that must not be empty
ParseZonaHoraria_NonEmpty(v, path) ==
  LET data == IF v.t = "undefined" THEN Str("Europe/Madrid") ELSE v
  IN IF data.t # "string"
     THEN INVALID(<<Issue(path, InvalidTypeMessage("string", data))>>)
     ELSE IF Len(data.s) = 0
     THEN DIRTY(data, <<Issue(path, "String must contain at least 1 character(s)")>>)
     ELSE OK(data)

\* zona_horaria: z.string().optional().default("Europe/Madrid")
ParseZonaHoraria(v, path) ==
  LET data == IF v.t = "undefined" THEN Str("Europe/Madrid") ELSE v
  IN IF data.t = "string" THEN OK(data)
     ELSE INVALID(<<Issue(path, InvalidTypeMessage("string", data))>>)

\* the issues of the fields, in the order of the schema's keys
RECURSIVE ConcatIssues(_, _)
ConcatIssues(results, i) ==
  IF i > Len(results) THEN <<>>
  ELSE results[i].issues \o ConcatIssues(results, i + 1)

\* an object parse that stops at the first key that fails
ParseObject_FailFast(raw, keys, results) ==
  IF ~raw.obj THEN INVALID(<<Issue(<<>>, InvalidTypeMessage("object", raw.v))>>)
  ELSE IF \A i \in 1..Len(results) : results[i].status = "valid"
  THEN OK([k \in Range(keys) |->
             results[CHOOSE i \in 1..Len(keys) : keys[i] = k].value])
  ELSE LET first == CHOOSE i \in 1..Len(results) :
                      /\ results[i].status # "valid"
                      /\ \A j \in 1..(i - 1) : results[j].status = "valid"
       IN INVALID(results[first].issues)

\* an object parse that reads arguments that are no mapping as the empty one
ParseObject_AbsentAsEmpty(raw, keys, results) ==
  LET issues == ConcatIssues(results, 1)
      value == [k \in Range(keys) |->
                  results[CHOOSE i \in 1..Len(keys) : keys[i] = k].value]
  IN IF \E i \in 1..Len(results) : results[i].status = "aborted"
     THEN INVALID(issues)
     ELSE IF \E i \in 1..Len(results) : results[i].status = "dirty"
     THEN DIRTY(value, issues)
     ELSE OK(value)

\* z.object(shape).strict(): a key outside the shape is an issue
ParseObject_Strict(raw, keys, results) ==
  IF ~raw.obj THEN INVALID(<<Issue(<<>>, InvalidTypeMessage("object", raw.v))>>)
  ELSE LET unknown == DOMAIN raw.f \ Range(keys)
           issues == ConcatIssues(results, 1)
                       \o (IF unknown = {} THEN <<>>
                           ELSE <<Issue(<<>>, "Unrecognized key(s) in object")>>)
           value == [k \in Range(keys) |->
                       results[CHOOSE i \in 1..Len(keys) : keys[i] = k].value]
       IN IF \E i \in 1..Len(results) : results[i].status = "aborted"
          THEN INVALID(issues)
          ELSE IF unknown # {} \/ \E i \in 1..Len(results) : results[i].status = "dirty"
          THEN DIRTY(value, issues)
          ELSE OK(value)

\* z.object(shape): every key of the shape is parsed (unknown keys are
\* stripped), the statuses are merged, the issues are kept in key order
ParseObject(raw, keys, results) ==
  IF ~raw.obj THEN INVALID(<<Issue(<<>>, InvalidTypeMessage("object", raw.v))>>)
  ELSE LET issues == ConcatIssues(results, 1)
           value == [k \in Range(keys) |->
                       results[CHOOSE i \in 1..Len(keys) : keys[i] = k].value]
       IN IF \E i \in 1..Len(results) : results[i].status = "aborted"
          THEN INVALID(issues)
          ELSE IF \E i \in 1..Len(results) : results[i].status = "dirty"
          THEN DIRTY(value, issues)
          ELSE OK(value)

GreetingKeys == <<"nombre", "formal">>
CalculatorKeys == <<"operacion", "a", "b">>
DateTimeKeys == <<"formato", "zona_horaria">>

GreetingFields(raw) ==
  <<ParseNombre(Get(raw, "nombre"), <<"nombre">>),
    ParseFormal(Get(raw, "formal"), <<"formal">>)>>

GreetingInputSchema(raw) == ParseObject(raw, GreetingKeys, GreetingFields(raw))

\* a refinement that lets every input through
DivisionRefinement_Absent(data) == TRUE

\* the callback of .refine
DivisionRefinement(data) ==
  IF data["operacion"] = Str("division") /\ data["b"] = Num(0) THEN FALSE ELSE TRUE

CalculatorFields(raw) ==
  <<ParseOperacion(Get(raw, "operacion"), <<"operacion">>),
    ParseFinite(Get(raw, "a"), <<"a">>, "El primer número debe ser un número válido"),
    ParseFinite(Get(raw, "b"), <<"b">>, "El segundo número debe ser un número válido")>>

CalculatorObjectSchema(raw) ==
  ParseObject(raw, CalculatorKeys, CalculatorFields(raw))

\* a zero-divisor check made on the raw arguments, whatever the object parse said
CalculatorInputSchema_RefineRaw(raw) ==
  LET inner == CalculatorObjectSchema(raw)
      zero == Get(raw, "operacion") = Str("division") /\ Get(raw, "b") = Num(0)
      issues == inner.issues \o <<Issue(<<"b">>, "No se puede dividir por cero")>>
  IN IF ~zero THEN inner
     ELSE IF inner.status = "aborted" THEN INVALID(issues)
     ELSE DIRTY(inner.value, issues)

\* z.object({...}).refine(callback, {message, path: ["b"]}): the refinement
\* runs unless the parse of the object was aborted
CalculatorInputSchema(raw) ==
  LET inner == CalculatorObjectSchema(raw)
  IN IF inner.status = "aborted" THEN inner
     ELSE IF DivisionRefinement(inner.value) THEN inner
     ELSE DIRTY(inner.value,
                inner.issues \o <<Issue(<<"b">>, "No se puede dividir por cero")>>)

DateTimeFields(raw) ==
  <<ParseFormato(Get(raw, "formato"), <<"formato">>),
    ParseZonaHoraria(Get(raw, "zona_horaria"), <<"zona_horaria">>)>>

DateTimeInputSchema(raw) == ParseObject(raw, DateTimeKeys, DateTimeFields(raw))

(***************************************************************************)
(* Errors and results.                                                     *)
(***************************************************************************)
JsError(class, code, message, issues) ==
  [class |-> class, code |-> code, message |-> message, issues |-> issues]
NoError == JsError("none", "none", "", <<>>)

RECURSIVE Join(_, _)
Join(strings, sep) ==
  IF strings = <<>> THEN ""
  ELSE IF Len(strings) = 1 THEN strings[1]
  ELSE strings[1] \o sep \o Join(Tail(strings), sep)

\* the text of a ZodError lists the issues; only their messages are kept here
ZodError(issues) ==
  JsError("ZodError", "none",
          Join([i \in 1..Len(issues) |-> issues[i].message], "; "), issues)
\* the message kept is the text the code passes to the constructor (the SDK
\* may put its own 'MCP error <code>: ' in front of it)
McpError(code, message) == JsError("McpError", code, message, <<>>)
Error(message) == JsError("Error", "none", message, <<>>)
RangeError(message) == JsError("RangeError", "none", message, <<>>)

\* `error instanceof Error ? error.message : String(error)`; every thrown value
\* of the model is an Error object
ErrorText(error) == error.message

Return(value) == [kind |-> "return", value |-> value, error |-> NoError]
Throw(error) == [kind |-> "throw", value |-> <<>>, error |-> error]
NoOutcome == [kind |-> "none", value |-> <<>>, error |-> NoError]

\* { content: [ { type: "text", text } ] }
TextContent(text) == <<[type |-> "text", text |-> text]>>

(***************************************************************************)
(* GreetingUseCase.execute; tiempoActual is new Date().getHours().         *)
(***************************************************************************)
\* the bands with noon counted as morning
GreetingExecute_NoonIsMorning(input, tiempoActual) ==
  LET nombre == input["nombre"].s
      formal == input["formal"].b
      saludoTiempo ==
        IF tiempoActual <= 12 THEN (IF formal THEN "Buenos días" ELSE "¡Buenos días")
        ELSE IF tiempoActual <= 18
             THEN (IF formal THEN "Buenas tardes" ELSE "¡Buenas tardes")
             ELSE (IF formal THEN "Buenas noches" ELSE "¡Buenas noches")
      saludo ==
        IF formal
        THEN saludoTiempo \o ", " \o nombre
               \o ". Es un placer saludarle. Espero que tenga un excelente día."
        ELSE saludoTiempo \o " " \o nombre
               \o "! ¿Cómo estás? ¡Espero que tengas un día genial!"
  IN Return(TextContent(saludo))

GreetingExecute(input, tiempoActual) ==
  LET nombre == input["nombre"].s
      formal == input["formal"].b
      saludoTiempo ==
        IF tiempoActual < 12 THEN (IF formal THEN "Buenos días" ELSE "¡Buenos días")
        ELSE IF tiempoActual < 18
             THEN (IF formal THEN "Buenas tardes" ELSE "¡Buenas tardes")
             ELSE (IF formal THEN "Buenas noches" ELSE "¡Buenas noches")
      saludo ==
        IF formal
        THEN saludoTiempo \o ", " \o nombre
               \o ". Es un placer saludarle. Espero que tenga un excelente día."
        ELSE saludoTiempo \o " " \o nombre
               \o "! ¿Cómo estás? ¡Espero que tengas un día genial!"
  IN Return(TextContent(saludo))

(***************************************************************************)
(* CalculatorUseCase.execute.  A JavaScript number computed from small     *)
(* integers is a fraction num/den (den > 0), an infinity or NaN.           *)
(***************************************************************************)
Finite(num, den) == [kind |-> "finite", num |-> num, den |-> den]
Abs(n) == IF n < 0 THEN -n ELSE n

\* a / b in IEEE arithmetic: x/0 is an infinity, 0/0 is NaN, nothing throws
Divide(a, b) ==
  IF b = 0
  THEN IF a = 0 THEN [kind |-> "nan", num |-> 0, den |-> 1]
       ELSE [kind |-> "infinity", num |-> (IF a < 0 THEN -1 ELSE 1), den |-> 1]
  ELSE Finite((IF b < 0 THEN -a ELSE a), Abs(b))

\* Number.isInteger
IsInteger(r) == r.kind = "finite" /\ r.num % r.den = 0

RECURSIVE Pow10(_)
Pow10(n) == IF n = 0 THEN 1 ELSE 10 * Pow10(n - 1)

PadLeft(s, n) == Repeat("0", n - Len(s)) \o s

\* the first k decimal digits of rem/den (rem < den) as a number, by long
\* division, with the remainder left over
RECURSIVE Decimals(_, _, _)
Decimals(rem, den, k) ==
  IF k = 0 THEN [q |-> 0, rem |-> rem]
  ELSE LET p == Decimals(rem, den, k - 1)
       IN [q |-> p.q * 10 + (p.rem * 10) \div den, rem |-> (p.rem * 10) % den]

\* a fixed-point conversion that drops the digits after the last one kept
toFixed_Truncating(r, digits) ==
  IF r.kind = "nan" THEN "NaN"
  ELSE IF r.kind = "infinity" THEN (IF r.num < 0 THEN "-Infinity" ELSE "Infinity")
  ELSE LET d == Decimals(Abs(r.num) % r.den, r.den, digits)
       IN (IF r.num < 0 THEN "-" ELSE "")
            \o ToString(Abs(r.num) \div r.den) \o "."
            \o PadLeft(ToString(d.q), digits)

\* Number.prototype.toFixed(digits): rounds to the nearest, a tie upwards
toFixed(r, digits) ==
  IF r.kind = "nan" THEN "NaN"
  ELSE IF r.kind = "infinity" THEN (IF r.num < 0 THEN "-Infinity" ELSE "Infinity")
  ELSE LET d == Decimals(Abs(r.num) % r.den, r.den, digits)
           up == IF 2 * d.rem >= r.den THEN d.q + 1 ELSE d.q
           carry == IF up = Pow10(digits) THEN 1 ELSE 0
       IN (IF r.num < 0 THEN "-" ELSE "")
            \o ToString(Abs(r.num) \div r.den + carry) \o "."
            \o PadLeft(ToString(up % Pow10(digits)), digits)

\* does the whole of t match \.?0+
MatchesDotZeros(t) ==
  LET zeros == IF StartsWith(t, ".") THEN SubSeq(t, 2, Len(t)) ELSE t
  IN Len(zeros) >= 1 /\ \A i \in 1..Len(zeros) : SubSeq(zeros, i, i) = "0"

\* every trailing zero and point removed, those of the integer part included
RECURSIVE StripZeros_Greedy(_)
StripZeros_Greedy(s) ==
  IF Len(s) > 0 /\ SubSeq(s, Len(s), Len(s)) \in {"0", "."}
  THEN StripZeros_Greedy(SubSeq(s, 1, Len(s) - 1))
  ELSE s

\* s.replace(/\.?0+$/, ''): the leftmost suffix that matches is removed
StripZeros(s) ==
  IF \E i \in 1..Len(s) : MatchesDotZeros(SubSeq(s, i, Len(s)))
  THEN LET first == CHOOSE i \in 1..Len(s) :
                      /\ MatchesDotZeros(SubSeq(s, i, Len(s)))
                      /\ \A j \in 1..(i - 1) : ~MatchesDotZeros(SubSeq(s, j, Len(s)))
       IN SubSeq(s, 1, first - 1)
  ELSE s

FormatResultado(r) ==
  IF IsInteger(r) THEN ToString(r.num \div r.den)
  ELSE StripZeros(toFixed(r, Precision))

\* the line of the legacy handler, which has no description in front
CalculatorExecute_NoDescription(input) ==
  LET operacion == input["operacion"].s
      a == input["a"].n
      b == input["b"].n
      resultado ==
        CASE operacion = "suma" -> Finite(a + b, 1)
          [] operacion = "resta" -> Finite(a - b, 1)
          [] operacion = "multiplicacion" -> Finite(a * b, 1)
          [] OTHER -> Divide(a, b)
      simbolo ==
        CASE operacion = "suma" -> "+"
          [] operacion = "resta" -> "-"
          [] operacion = "multiplicacion" -> "×"
          [] OTHER -> "÷"
  IN Return(TextContent(ToString(a) \o " " \o simbolo \o " " \o ToString(b)
                          \o " = " \o FormatResultado(resultado)))

CalculatorExecute(input) ==
  LET operacion == input["operacion"].s
      a == input["a"].n
      b == input["b"].n
  IN IF operacion \notin Range(Operaciones) THEN Throw(Error("Operación no válida"))
     ELSE LET resultado ==
                CASE operacion = "suma" -> Finite(a + b, 1)
                  [] operacion = "resta" -> Finite(a - b, 1)
                  [] operacion = "multiplicacion" -> Finite(a * b, 1)
                  [] operacion = "division" -> Divide(a, b)
              simbolo ==
                CASE operacion = "suma" -> "+"
                  [] operacion = "resta" -> "-"
                  [] operacion = "multiplicacion" -> "×"
                  [] operacion = "division" -> "÷"
              descripcion ==
                CASE operacion = "suma" -> "Suma"
                  [] operacion = "resta" -> "Resta"
                  [] operacion = "multiplicacion" -> "Multiplicación"
                  [] operacion = "division" -> "División"
          IN Return(TextContent(descripcion \o ": " \o ToString(a) \o " " \o simbolo
                                  \o " " \o ToString(b) \o " = "
                                  \o FormatResultado(resultado)))

(***************************************************************************)
(* DateTimeUseCase.execute.  The runtime's time-zone database is the set   *)
(* KnownTimeZones; a toLocale...String call with any other timeZone throws *)
(* a RangeError.  The rendered date itself is an opaque text.              *)
(***************************************************************************)
KnownTimeZones == {"Europe/Madrid", "America/New_York", "Asia/Tokyo", "UTC"}

\* Date.prototype.toLocaleDateString / toLocaleTimeString / toLocaleString
ToLocale(formato, timeZone) ==
  IF timeZone \in KnownTimeZones
  THEN Return("<" \o formato \o " es-ES " \o timeZone \o ">")
  ELSE Throw(RangeError("Invalid time zone specified: " \o timeZone))

\* Date.prototype.toISOString takes no time zone
ToISOString == Return("<iso UTC>")

\* a result that names the zone whatever it is
DateTimeExecute_AlwaysZone(input) ==
  LET formato == input["formato"].s
      zona_horaria == input["zona_horaria"].s
      fechaFormateada == IF formato = "iso" THEN ToISOString
                         ELSE ToLocale(formato, zona_horaria)
  IN IF fechaFormateada.kind = "throw"
     THEN Throw(Error("Error al formatear la fecha: " \o ErrorText(fechaFormateada.error)))
     ELSE Return(TextContent("La fecha actual es: " \o fechaFormateada.value
                               \o " (Zona horaria: " \o zona_horaria \o ")"))

DateTimeExecute(input) ==
  LET formato == input["formato"].s
      zona_horaria == input["zona_horaria"].s
      fechaFormateada == IF formato = "iso" THEN ToISOString
                         ELSE ToLocale(formato, zona_horaria)
      zonaInfo == IF zona_horaria # "Europe/Madrid"
                  THEN " (Zona horaria: " \o zona_horaria \o ")" ELSE ""
  IN IF fechaFormateada.kind = "throw"
     THEN Throw(Error("Error al formatear la fecha: " \o ErrorText(fechaFormateada.error)))
     ELSE Return(TextContent("La fecha actual es: " \o fechaFormateada.value \o zonaInfo))

(***************************************************************************)
(* The tool resolvers.  The three classes differ only in the schema, the   *)
(* use case and the tool name written into the messages.                   *)
(***************************************************************************)
ToolNames == <<"saludo", "calcular", "fecha_actual">>

Schema(tool, raw) ==
  CASE tool = "saludo" -> GreetingInputSchema(raw)
    [] tool = "calcular" -> CalculatorInputSchema(raw)
    [] tool = "fecha_actual" -> DateTimeInputSchema(raw)

\* XResolver.validateInput: XInputSchema.parse(args) returns the value of a
\* valid parse and throws a ZodError with every issue otherwise
ValidateInput(tool, raw) ==
  LET result == Schema(tool, raw)
  IN IF result.status = "valid" THEN Return(result.value)
     ELSE Throw(ZodError(result.issues))

\* ToolResolver.validateInput: the switch on the tool name; its default branch
\* throws a plain Error
ToolResolverValidateInput(name, raw) ==
  IF name \in Range(ToolNames) THEN ValidateInput(name, raw)
  ELSE Throw(Error("Herramienta desconocida: " \o name))

\* useCase.execute(validatedInput)
UseCaseExecute(tool, input, hour) ==
  CASE tool = "saludo" -> GreetingExecute(input, hour)
    [] tool = "calcular" -> CalculatorExecute(input)
    [] tool = "fecha_actual" -> DateTimeExecute(input)

\* error.errors.map(err => `${err.path.join('.')}: ${err.message}`).join('; ')
FormatIssues(issues) ==
  Join([i \in 1..Len(issues) |->
          Join(issues[i].path, ".") \o ": " \o issues[i].message], "; ")

\* the catch block without its ZodError branch
ResolverCatch_NoZodBranch(tool, error) ==
  IF error.class = "McpError" THEN error
  ELSE McpError("InternalError",
                "Error interno en herramienta '" \o tool \o "': " \o ErrorText(error))

\* the catch block with the code of the handler's catch in its last branch
ResolverCatch_GenericInvalidParams(tool, error) ==
  IF error.class = "ZodError"
  THEN McpError("InvalidParams",
                "Errores de validación en herramienta '" \o tool \o "': "
                  \o FormatIssues(error.issues))
  ELSE IF error.class = "McpError" THEN error
  ELSE McpError("InvalidParams",
                "Error interno en herramienta '" \o tool \o "': " \o ErrorText(error))

\* a catch block that reports whatever is not a McpError as a validation error
ResolverCatch_AllInvalidParams(tool, error) ==
  IF error.class = "McpError" THEN error
  ELSE McpError("InvalidParams",
                "Errores de validación en herramienta '" \o tool \o "': "
                  \o (IF error.class = "ZodError" THEN FormatIssues(error.issues)
                      ELSE ErrorText(error)))

\* the catch block of XResolver.resolveAndExecute
ResolverCatch(tool, error) ==
  IF error.class = "ZodError"
  THEN McpError("InvalidParams",
                "Errores de validación en herramienta '" \o tool \o "': "
                  \o FormatIssues(error.issues))
  ELSE IF error.class = "McpError" THEN error
  ELSE McpError("InternalError",
                "Error interno en herramienta '" \o tool \o "': " \o ErrorText(error))

(***************************************************************************)
(* ToolResolver, the orchestrator.                                         *)
(* Discovery.  A descriptor keeps the name, the keys of                    *)
(* inputSchema.properties, the required list (absent for fecha_actual),    *)
(* the declared defaults and additionalProperties.                         *)
(***************************************************************************)
\* a descriptor that lists formal as required although it has a default
GREETING_TOOL_DEFINITION_FormalRequired ==
  [name |-> "saludo",
   properties |-> <<"nombre", "formal">>,
   hasRequired |-> TRUE,
   required |-> <<"nombre", "formal">>,
   defaults |-> [formal |-> Bool(FALSE)],
   additionalProperties |-> FALSE]

GREETING_TOOL_DEFINITION ==
  [name |-> "saludo",
   properties |-> <<"nombre", "formal">>,
   hasRequired |-> TRUE,
   required |-> <<"nombre">>,
   defaults |-> [formal |-> Bool(FALSE)],
   additionalProperties |-> FALSE]

CALCULATOR_TOOL_DEFINITION ==
  [name |-> "calcular",
   properties |-> <<"operacion", "a", "b">>,
   hasRequired |-> TRUE,
   required |-> <<"operacion", "a", "b">>,
   defaults |-> <<>>,
   additionalProperties |-> FALSE]

DATETIME_TOOL_DEFINITION ==
  [name |-> "fecha_actual",
   properties |-> <<"formato", "zona_horaria">>,
   hasRequired |-> FALSE,
   required |-> <<>>,
   defaults |-> [formato |-> Str("largo"), zona_horaria |-> Str("Europe/Madrid")],
   additionalProperties |-> FALSE]

\* the module-level resolver instances; getToolDefinition() returns the constant
Resolvers ==
  [greetingResolver |-> GREETING_TOOL_DEFINITION,
   calculatorResolver |-> CALCULATOR_TOOL_DEFINITION,
   dateTimeResolver |-> DATETIME_TOOL_DEFINITION]

\* JavaScript null
Null == [null |-> TRUE]

\* a list built in another order
GetToolDefinitions_Sorted(reg) ==
  <<reg.calculatorResolver, reg.dateTimeResolver, reg.greetingResolver>>

\* ToolResolver.getToolDefinitions
GetToolDefinitions(reg) ==
  <<reg.greetingResolver, reg.calculatorResolver, reg.dateTimeResolver>>

\* a lookup whose default branch throws, as ToolResolver.validateInput does
GetToolInfo_Throwing(reg, name) ==
  CASE name = "saludo" -> Return(reg.greetingResolver)
    [] name = "calcular" -> Return(reg.calculatorResolver)
    [] name = "fecha_actual" -> Return(reg.dateTimeResolver)
    [] OTHER -> Throw(Error("Herramienta desconocida: " \o name))

\* a lookup that ignores the case of the name
GetToolInfo_IgnoreCase(reg, name) ==
  CASE toLowerCase(name) = "saludo" -> Return(reg.greetingResolver)
    [] toLowerCase(name) = "calcular" -> Return(reg.calculatorResolver)
    [] toLowerCase(name) = "fecha_actual" -> Return(reg.dateTimeResolver)
    [] OTHER -> Return(Null)

\* ToolResolver.getToolInfo
GetToolInfo(reg, name) ==
  CASE name = "saludo" -> Return(reg.greetingResolver)
    [] name = "calcular" -> Return(reg.calculatorResolver)
    [] name = "fecha_actual" -> Return(reg.dateTimeResolver)
    [] OTHER -> Return(Null)

\* the default branch with the message of the legacy server, which lists no names
UnknownToolError_NoList(name) ==
  McpError("MethodNotFound", "Herramienta desconocida: " \o name)

\* the default branch of the switch of ToolResolver.resolveAndExecute
UnknownToolError(name) ==
  McpError("MethodNotFound",
           "Herramienta desconocida: " \o name
             \o ". Herramientas disponibles: saludo, calcular, fecha_actual")

\* a catch block that throws a plain Error for whatever it caught
DispatcherCatch_PlainError(name, error) ==
  Error("Error interno en herramienta '" \o name \o "': " \o ErrorText(error))

\* a catch block without the instanceof McpError test
DispatcherCatch_WrapAll(name, error) ==
  McpError("InternalError",
           "Error interno en herramienta '" \o name \o "': " \o ErrorText(error))

\* the catch block of ToolResolver.resolveAndExecute
DispatcherCatch(name, error) ==
  IF error.class = "McpError" THEN error
  ELSE McpError("InternalError",
                "Error interno en herramienta '" \o name \o "': " \o ErrorText(error))

\* the catch block of the CallToolRequestSchema handler
HandlerCatch(error) ==
  IF error.class = "McpError" THEN error
  ELSE McpError("InvalidParams", "MCP error -32602: " \o ErrorText(error))

(***************************************************************************)
(* The legacy server (src/index.ts) and its handlers (tools.ts).  Nothing  *)
(* validates the arguments; the handlers read them by destructuring.       *)
(***************************************************************************)
TypeError(message) == JsError("TypeError", "none", message, <<>>)

\* `const { x } = args` throws when args is undefined; a string has no such
\* properties and yields undefined for each
CannotDestructure(raw, key) ==
  TypeError("Cannot destructure property '" \o key \o "' of 'args' as it is undefined.")

Destructurable(raw) == raw.obj \/ raw.v.t # "undefined"

\* typeof v === 'number': NaN and the infinities are numbers too
TypeofNumber(v) == v.t \in {"number", "infinity", "nan"}

\* JavaScript truthiness
Truthy(v) ==
  CASE v.t = "boolean" -> v.b
    [] v.t = "string" -> v.s # ""
    [] v.t = "number" -> v.n # 0
    [] v.t = "infinity" -> TRUE
    [] OTHER -> FALSE

\* the number a JsValue of type number stands for
AsNumber(v) ==
  CASE v.t = "number" -> Finite(v.n, 1)
    [] v.t = "infinity" -> [kind |-> "infinity", num |-> v.n, den |-> 1]
    [] OTHER -> [kind |-> "nan", num |-> 0, den |-> 1]

NaNResult == [kind |-> "nan", num |-> 0, den |-> 1]
Sign(n) == IF n < 0 THEN 0 - 1 ELSE 1

\* IEEE +, -, *, / on whole numbers, the infinities and NaN
Add(x, y) ==
  IF x.kind = "nan" \/ y.kind = "nan" THEN NaNResult
  ELSE IF x.kind = "finite" /\ y.kind = "finite" THEN Finite(x.num + y.num, 1)
  ELSE IF x.kind = "finite" THEN y
  ELSE IF y.kind = "finite" THEN x
  ELSE IF Sign(x.num) = Sign(y.num) THEN x ELSE NaNResult

Negate(x) == [x EXCEPT !.num = 0 - x.num]

Multiply(x, y) ==
  IF x.kind = "nan" \/ y.kind = "nan" THEN NaNResult
  ELSE IF x.kind = "finite" /\ y.kind = "finite" THEN Finite(x.num * y.num, 1)
  ELSE IF x.num = 0 \/ y.num = 0 THEN NaNResult
  ELSE [kind |-> "infinity", num |-> Sign(x.num) * Sign(y.num), den |-> 1]

Quotient(x, y) ==
  IF x.kind = "nan" \/ y.kind = "nan" THEN NaNResult
  ELSE IF x.kind = "finite" /\ y.kind = "finite" THEN Divide(x.num, y.num)
  ELSE IF x.kind = "infinity" /\ y.kind = "infinity" THEN NaNResult
  ELSE IF y.kind = "infinity" THEN Finite(0, 1)
  ELSE [kind |-> "infinity", num |-> Sign(x.num) * Sign(y.num), den |-> 1]

\* the decimal digits of rem/den (rem < den) when the expansion ends
RECURSIVE Digits(_, _)
Digits(rem, den) ==
  IF rem = 0 THEN ""
  ELSE ToString((rem * 10) \div den) \o Digits((rem * 10) % den, den)

\* `${x}` for a number: whole numbers and ending decimals in full; the
\* digits of a quotient that does not end are not modelled
NumberToString(r) ==
  IF r.kind = "nan" THEN "NaN"
  ELSE IF r.kind = "infinity" THEN (IF r.num < 0 THEN "-Infinity" ELSE "Infinity")
  ELSE IF r.num % r.den = 0 THEN ToString(r.num \div r.den)
  ELSE IF \E k \in 1..9 : Pow10(k) % r.den = 0
  THEN (IF r.num < 0 THEN "-" ELSE "") \o ToString(Abs(r.num) \div r.den) \o "."
         \o Digits(Abs(r.num) % r.den, r.den)
  ELSE "<" \o ToString(r.num) \o "/" \o ToString(r.den) \o ">"

manejarSaludo(raw) ==
  IF ~Destructurable(raw) THEN Throw(CannotDestructure(raw, "nombre"))
  ELSE LET nombre == Get(raw, "nombre")
           formal == IF Get(raw, "formal") = Undef THEN Bool(FALSE) ELSE Get(raw, "formal")
       IN IF ~Truthy(nombre) \/ nombre.t # "string"
          THEN Throw(Error("El nombre es requerido y debe ser una cadena"))
          ELSE Return(TextContent(
                 IF Truthy(formal)
                 THEN "Buenos días, Sr./Sra. " \o nombre.s \o ". Es un placer saludarle."
                 ELSE "¡Hola " \o nombre.s \o "! ¿Cómo estás?"))

\* the switch entered before the operands are looked at
manejarCalcular_OperationFirst(raw) ==
  IF ~Destructurable(raw) THEN Throw(CannotDestructure(raw, "operacion"))
  ELSE LET operacion == Get(raw, "operacion")
           a == Get(raw, "a")
           b == Get(raw, "b")
       IN IF operacion \notin {Str(op) : op \in Range(Operaciones)}
          THEN Throw(Error("Operación no válida"))
          ELSE IF ~TypeofNumber(a) \/ ~TypeofNumber(b)
          THEN Throw(Error("Los números deben ser valores numéricos"))
          ELSE IF operacion = Str("division") /\ b = Num(0)
          THEN Throw(Error("No se puede dividir por cero"))
          ELSE LET x == AsNumber(a)
                   y == AsNumber(b)
                   resultado ==
                     CASE operacion.s = "suma" -> Add(x, y)
                       [] operacion.s = "resta" -> Add(x, Negate(y))
                       [] operacion.s = "multiplicacion" -> Multiply(x, y)
                       [] operacion.s = "division" -> Quotient(x, y)
                   simbolo ==
                     CASE operacion.s = "suma" -> "+"
                       [] operacion.s = "resta" -> "-"
                       [] operacion.s = "multiplicacion" -> "×"
                       [] operacion.s = "division" -> "÷"
               IN Return(TextContent(NumberToString(x) \o " " \o simbolo \o " "
                                       \o NumberToString(y) \o " = "
                                       \o NumberToString(resultado)))

manejarCalcular(raw) ==
  IF ~Destructurable(raw) THEN Throw(CannotDestructure(raw, "operacion"))
  ELSE LET operacion == Get(raw, "operacion")
           a == Get(raw, "a")
           b == Get(raw, "b")
       IN IF ~TypeofNumber(a) \/ ~TypeofNumber(b)
          THEN Throw(Error("Los números deben ser valores numéricos"))
          ELSE IF operacion \notin {Str(op) : op \in Range(Operaciones)}
          THEN Throw(Error("Operación no válida"))
          ELSE IF operacion = Str("division") /\ b = Num(0)
          THEN Throw(Error("No se puede dividir por cero"))
          ELSE LET x == AsNumber(a)
                   y == AsNumber(b)
                   resultado ==
                     CASE operacion.s = "suma" -> Add(x, y)
                       [] operacion.s = "resta" -> Add(x, Negate(y))
                       [] operacion.s = "multiplicacion" -> Multiply(x, y)
                       [] operacion.s = "division" -> Quotient(x, y)
                   simbolo ==
                     CASE operacion.s = "suma" -> "+"
                       [] operacion.s = "resta" -> "-"
                       [] operacion.s = "multiplicacion" -> "×"
                       [] operacion.s = "division" -> "÷"
               IN Return(TextContent(NumberToString(x) \o " " \o simbolo \o " "
                                       \o NumberToString(y) \o " = "
                                       \o NumberToString(resultado)))

\* only corto and hora have a case of their own; anything else is largo
manejarFechaActual(raw) ==
  IF ~Destructurable(raw) THEN Throw(CannotDestructure(raw, "formato"))
  ELSE LET formato == IF Get(raw, "formato") = Undef THEN Str("largo")
                      ELSE Get(raw, "formato")
           caso == IF formato \in {Str("corto"), Str("hora")} THEN formato.s ELSE "largo"
       IN Return(TextContent("La fecha actual es: <" \o caso \o " es-ES>"))

\* the switch of the legacy CallTool handler
LegacyDispatch(name, raw) ==
  CASE name = "saludo" -> manejarSaludo(raw)
    [] name = "calcular" -> manejarCalcular(raw)
    [] name = "fecha_actual" -> manejarFechaActual(raw)
    [] OTHER -> Throw(McpError("MethodNotFound", "Herramienta desconocida: " \o name))

\* the catch block of the legacy CallTool handler
LegacyCatch(error) ==
  IF error.class = "McpError" THEN error
  ELSE McpError("InvalidParams", "MCP error -32602: " \o ErrorText(error))

(***************************************************************************)
(* The inputs explored.                                                    *)
(***************************************************************************)
Nums == (0 - MaxNum)..MaxNum

NombreValues == {Undef, Str(""), Str("A"), Str("Ana"), Str(Repeat("a", MaxNombre)),
                 Str(Repeat("a", MaxNombre + 1)), Num(123)}
FormalValues == {Undef, Bool(TRUE), Bool(FALSE), Str("true"), Str("TRUE"),
                 Str("False"), Str("si"), Num(123)}
OperacionValues == {Undef, Str("potencia"), Num(1)}
                     \cup {Str(op) : op \in Range(Operaciones)}
NumberValues == {Undef, Str("5"), Infinity, NaN} \cup {Num(n) : n \in Nums}
FormatoValues == {Undef, Str("semana"), Num(123)}
                   \cup {Str(f) : f \in Range(Formatos)}
ZonaValues == {Undef, Str("Europe/Madrid"), Str("Asia/Tokyo"),
               Str("Invalid/Timezone"), Str(""), Num(1)}

\* the mapping that holds the keys given a value other than undefined
Mapping(choice) ==
  RawObject([k \in {x \in DOMAIN choice : choice[x] # Undef} |-> choice[k]])

NonMappings == {RawValue(Undef), RawValue(Str("texto"))}

\* the divisions of the tests and two quotients that round to a whole number
\* at the sixth decimal
FormatCases ==
  {<<10, 3>>, <<7, 3>>, <<8, 2>>, <<2, 3>>, <<0 - 2, 3>>, <<1, 8>>, <<1, 2000001>>,
   <<20000009, 2000001>>}

\* the mapping with more keys
AddKeys(raw, extras) ==
  RawObject([k \in DOMAIN raw.f \cup DOMAIN extras |->
               IF k \in DOMAIN extras THEN extras[k] ELSE raw.f[k]])

\* keys no schema declares
ExtraKeys == {[extra |-> Str("x")], [extra |-> Num(1), admin |-> Bool(TRUE)]}

\* arguments that carry undeclared keys, accepted and rejected ones
UndeclaredArgs(name) ==
  CASE name = "saludo" ->
         {AddKeys(Mapping([nombre |-> n, formal |-> f]), e) :
            n \in {Str("Ana"), Str("")}, f \in {Undef, Str("TRUE")}, e \in ExtraKeys}
    [] name = "calcular" ->
         {AddKeys(Mapping([operacion |-> o, a |-> Num(1), b |-> y]), e) :
            o \in {Undef, Str("division")}, y \in {Num(0), Num(MaxNum)},
            e \in ExtraKeys}
    [] name = "fecha_actual" ->
         {AddKeys(Mapping([formato |-> f, zona_horaria |-> z]), e) :
            f \in {Undef, Str("semana")}, z \in {Undef, Str("Invalid/Timezone")},
            e \in ExtraKeys}
    [] OTHER -> {}

RawArgs(name) ==
  CASE name = "saludo" ->
         {Mapping([nombre |-> n, formal |-> f]) :
            n \in NombreValues, f \in FormalValues} \cup NonMappings \cup UndeclaredArgs(name)
    [] name = "calcular" ->
         {Mapping([operacion |-> o, a |-> x, b |-> y]) :
            o \in OperacionValues, x \in NumberValues, y \in NumberValues}
           \cup {Mapping([operacion |-> Str("division"), a |-> Num(c[1]),
                           b |-> Num(c[2])]) : c \in FormatCases}
           \cup NonMappings \cup UndeclaredArgs(name)
    [] name = "fecha_actual" ->
         {Mapping([formato |-> f, zona_horaria |-> z]) :
            f \in FormatoValues, z \in ZonaValues} \cup NonMappings \cup UndeclaredArgs(name)
    [] OTHER -> {RawObject(<<>>)} \cup NonMappings \cup UndeclaredArgs(name)

RequestNames == Range(ToolNames) \cup {"inexistente", "SALUDO", ""}

\* what a use case can be handed when it is called directly: TypeScript
\* checks the types of the fields, nothing checks the cross-field rule
TypedInputs(tool) ==
  CASE tool = "saludo" ->
         {[nombre |-> Str(n), formal |-> Bool(f)] :
            n \in {"Ana", "Sr. García"}, f \in BOOLEAN}
    [] tool = "calcular" ->
         {[operacion |-> Str(o), a |-> Num(x), b |-> Num(y)] :
            o \in Range(Operaciones), x \in Nums, y \in Nums}
           \cup {[operacion |-> Str("division"), a |-> Num(c[1]), b |-> Num(c[2])] :
                   c \in FormatCases}
    [] tool = "fecha_actual" ->
         {[formato |-> Str(f), zona_horaria |-> Str(z)] :
            f \in Range(Formatos),
            z \in {"Europe/Madrid", "Asia/Tokyo", "Invalid/Timezone", "Not/A/Timezone"}}

Hours == 0..23

(***************************************************************************)
(* The state machine: one invocation at a time, followed through the       *)
(* handler, the orchestrator, the resolver and the use case.               *)
(***************************************************************************)
NoInput == <<>>
NoClock == 0 - 1

Invocations == 1..MaxInv

\* the locals of one call of the handler; nothing before the request arrives
IdleInvocation ==
  [pc |-> "idle", name |-> "", args |-> RawValue(Undef), validated |-> NoInput,
   clock |-> NoClock, thrown |-> NoError, outcome |-> NoOutcome]

Init ==
  /\ pc = "idle"
  /\ entry = "none"
  /\ toolName = ""
  /\ args = RawValue(Undef)
  /\ calls = <<>>
  /\ validated = NoInput
  /\ clock = NoClock
  /\ raised = NoError
  /\ thrown = NoError
  /\ resolverError = NoError
  /\ dispatcherError = NoError
  /\ outcome = NoOutcome
  /\ registry = Resolvers
  /\ inv = [i \in Invocations |-> IdleInvocation]

\* a CallTool request arrives: `const { name, arguments: args } = request.params`
CallTool(name, raw) ==
  /\ pc = "idle"
  /\ UNCHANGED <<registry, inv>>
  /\ pc' = "dispatch"
  /\ entry' = "CallTool"
  /\ toolName' = name
  /\ args' = raw
  /\ UNCHANGED <<calls, validated, clock, raised, thrown, resolverError,
                 dispatcherError, outcome>>

\* ToolResolver.resolveAndExecute: the switch on the tool name
Dispatch ==
  /\ pc = "dispatch"
  /\ UNCHANGED <<registry, inv>>
  /\ IF toolName \in Range(ToolNames)
     THEN /\ pc' = "validate"
          /\ UNCHANGED <<raised, thrown>>
     ELSE /\ pc' = "dispatcherCatch"
          /\ thrown' = UnknownToolError(toolName)
          /\ raised' = thrown'
  /\ UNCHANGED <<entry, toolName, args, calls, validated, clock, resolverError,
                 dispatcherError, outcome>>

\* XResolver.resolveAndExecute: const validatedInput = this.validateInput(args)
Validate ==
  /\ pc = "validate"
  /\ UNCHANGED <<registry, inv>>
  /\ calls' = Append(calls, "validateInput")
  /\ LET r == ValidateInput(toolName, args)
     IN IF r.kind = "return"
        THEN /\ validated' = r.value
             /\ pc' = "execute"
             /\ UNCHANGED <<raised, thrown>>
        ELSE /\ thrown' = r.error
             /\ raised' = r.error
             /\ pc' = "resolverCatch"
             /\ UNCHANGED validated
  /\ UNCHANGED <<entry, toolName, args, clock, resolverError, dispatcherError,
                 outcome>>

\* XResolver.resolveAndExecute: return this.useCase.execute(validatedInput);
\* a returned value goes back through the three layers as it is
Execute ==
  /\ pc = "execute"
  /\ UNCHANGED <<registry, inv>>
  /\ calls' = Append(calls, "execute")
  /\ \E hour \in Hours :
       /\ clock' = (IF toolName = "saludo" THEN hour ELSE NoClock)
       /\ LET r == UseCaseExecute(toolName, validated, hour)
          IN IF r.kind = "return"
             THEN /\ outcome' = r
                  /\ pc' = "done"
                  /\ UNCHANGED <<raised, thrown>>
             ELSE /\ thrown' = r.error
                  /\ raised' = r.error
                  /\ pc' = "resolverCatch"
                  /\ UNCHANGED outcome
  /\ UNCHANGED <<entry, toolName, args, validated, resolverError, dispatcherError>>

\* XResolver.resolveAndExecute: catch (error)
ResolverRethrow ==
  /\ pc = "resolverCatch"
  /\ UNCHANGED <<registry, inv>>
  /\ thrown' = ResolverCatch(toolName, thrown)
  /\ resolverError' = thrown'
  /\ pc' = "dispatcherCatch"
  /\ UNCHANGED <<entry, toolName, args, calls, validated, clock, raised,
                 dispatcherError, outcome>>

\* ToolResolver.resolveAndExecute: catch (error)
DispatcherRethrow ==
  /\ pc = "dispatcherCatch"
  /\ UNCHANGED <<registry, inv>>
  /\ thrown' = DispatcherCatch(toolName, thrown)
  /\ dispatcherError' = thrown'
  /\ pc' = "handlerCatch"
  /\ UNCHANGED <<entry, toolName, args, calls, validated, clock, raised,
                 resolverError, outcome>>

\* the CallTool handler: catch (error); what it throws is the reply
HandlerRethrow ==
  /\ pc = "handlerCatch"
  /\ UNCHANGED <<registry, inv>>
  /\ outcome' = Throw(HandlerCatch(thrown))
  /\ pc' = "done"
  /\ UNCHANGED <<entry, toolName, args, calls, validated, clock, raised, thrown,
                 resolverError, dispatcherError>>

\* a use case called on its own, as its unit tests do: no validation runs
ExecuteDirect(tool, input) ==
  /\ pc = "idle"
  /\ UNCHANGED <<registry, inv>>
  /\ entry' = "execute"
  /\ toolName' = tool
  /\ validated' = input
  /\ calls' = <<"execute">>
  /\ \E hour \in Hours :
       /\ clock' = (IF tool = "saludo" THEN hour ELSE NoClock)
       /\ outcome' = UseCaseExecute(tool, input, hour)
  /\ pc' = "done"
  /\ UNCHANGED <<args, raised, thrown, resolverError, dispatcherError>>

\* ToolResolver.validateInput(name, args) called on its own: the schema is
\* applied and nothing else runs
ValidateDirect(name, raw) ==
  /\ pc = "idle"
  /\ entry' = "validateInput"
  /\ toolName' = name
  /\ args' = raw
  /\ calls' = <<"validateInput">>
  /\ LET r == ToolResolverValidateInput(name, raw)
     IN /\ outcome' = r
        /\ validated' = (IF r.kind = "return" THEN r.value ELSE NoInput)
        /\ raised' = r.error
  /\ pc' = "done"
  /\ UNCHANGED <<clock, thrown, resolverError, dispatcherError, registry, inv>>

\* the CallTool handler of the legacy server, from the request to the reply
LegacyCallTool(name, raw) ==
  /\ pc = "idle"
  /\ entry' = "legacy"
  /\ toolName' = name
  /\ args' = raw
  /\ LET r == LegacyDispatch(name, raw)
     IN /\ raised' = r.error
        /\ outcome' = (IF r.kind = "return" THEN r ELSE Throw(LegacyCatch(r.error)))
  /\ pc' = "done"
  /\ UNCHANGED <<calls, validated, clock, thrown, resolverError, dispatcherError,
                 registry, inv>>

\* ToolResolver.getToolDefinitions(), as the ListTools handler calls it
ListTools ==
  /\ pc = "idle"
  /\ entry' = "getToolDefinitions"
  /\ outcome' = Return(GetToolDefinitions(registry))
  /\ pc' = "done"
  /\ UNCHANGED <<toolName, args, calls, validated, clock, raised, thrown,
                 resolverError, dispatcherError, registry, inv>>

\* ToolResolver.getToolInfo(name)
ToolInfo(name) ==
  /\ pc = "idle"
  /\ entry' = "getToolInfo"
  /\ toolName' = name
  /\ outcome' = GetToolInfo(registry, name)
  /\ pc' = "done"
  /\ UNCHANGED <<args, calls, validated, clock, raised, thrown, resolverError,
                 dispatcherError, registry, inv>>

\* the reply is sent; nothing of the invocation is kept
Respond ==
  /\ pc = "done"
  /\ UNCHANGED <<registry, inv>>
  /\ pc' = "idle"
  /\ entry' = "none"
  /\ toolName' = ""
  /\ args' = RawValue(Undef)
  /\ calls' = <<>>
  /\ validated' = NoInput
  /\ clock' = NoClock
  /\ raised' = NoError
  /\ thrown' = NoError
  /\ resolverError' = NoError
  /\ dispatcherError' = NoError
  /\ outcome' = NoOutcome

Next ==
  \/ \E name \in RequestNames : \E raw \in RawArgs(name) : CallTool(name, raw)
  \/ Dispatch
  \/ Validate
  \/ Execute
  \/ ResolverRethrow
  \/ DispatcherRethrow
  \/ HandlerRethrow
  \/ \E tool \in Range(ToolNames) : \E input \in TypedInputs(tool) :
       ExecuteDirect(tool, input)
  \/ \E name \in RequestNames : \E raw \in RawArgs(name) : ValidateDirect(name, raw)
  \/ \E name \in RequestNames : \E raw \in RawArgs(name) : LegacyCallTool(name, raw)
  \/ ListTools
  \/ \E name \in RequestNames : ToolInfo(name)
  \/ Respond

Spec == Init /\ [][Next]_vars

(***************************************************************************)
(* Several invocations in flight.  Every call of the handler has its own   *)
(* locals (name, args, validatedInput, the error caught); the resolver     *)
(* instances and their definitions are the only objects the calls share.   *)
(* The steps of different calls interleave freely, which includes the      *)
(* orders an event loop or an external dispatcher can produce.             *)
(***************************************************************************)
\* the requests sent concurrently: two accepted greetings, a rejected one, a
\* calculation, a date whose formatting throws, a tool that does not exist
ConcRequests ==
  {<<"saludo", Mapping([nombre |-> Str("Ana"), formal |-> Bool(TRUE)])>>,
   <<"saludo", Mapping([nombre |-> Str("A"), formal |-> Undef])>>,
   <<"saludo", Mapping([nombre |-> Str(""), formal |-> Undef])>>,
   <<"calcular", Mapping([operacion |-> Str("division"), a |-> Num(1), b |-> Num(MaxNum)])>>,
   <<"fecha_actual", Mapping([formato |-> Undef, zona_horaria |-> Str("Invalid/Timezone")])>>,
   <<"inexistente", RawObject(<<>>)>>}

\* an hour of the morning and one of the evening
ConcHours == {11, 18}

seqVars == <<pc, entry, toolName, args, calls, validated, clock, raised,
             thrown, resolverError, dispatcherError, outcome, registry>>

\* a validated input kept in a field of the shared resolver instance: the
\* call reads what the first call in flight for the same tool stored there
ValidatedInput_InstanceField(invs, i) ==
  LET holders == {j \in DOMAIN invs :
                    invs[j].name = invs[i].name /\ invs[j].validated # NoInput}
  IN invs[CHOOSE j \in holders : \A k \in holders : j <= k].validated

\* const validatedInput: a local of the call
ValidatedInput(invs, i) == invs[i].validated

ConcCallTool(i, name, raw) ==
  /\ inv[i].pc = "idle"
  /\ inv' = [inv EXCEPT ![i] = [@ EXCEPT !.pc = "dispatch", !.name = name, !.args = raw]]
  /\ UNCHANGED seqVars

ConcDispatch(i) ==
  /\ inv[i].pc = "dispatch"
  /\ inv' = [inv EXCEPT ![i] =
               IF @.name \in Range(ToolNames)
               THEN [@ EXCEPT !.pc = "validate"]
               ELSE [@ EXCEPT !.pc = "dispatcherCatch",
                              !.thrown = UnknownToolError(inv[i].name)]]
  /\ UNCHANGED seqVars

ConcValidate(i) ==
  /\ inv[i].pc = "validate"
  /\ LET r == ValidateInput(inv[i].name, inv[i].args)
     IN inv' = [inv EXCEPT ![i] =
                  IF r.kind = "return"
                  THEN [@ EXCEPT !.pc = "execute", !.validated = r.value]
                  ELSE [@ EXCEPT !.pc = "resolverCatch", !.thrown = r.error]]
  /\ UNCHANGED seqVars

ConcExecute(i) ==
  /\ inv[i].pc = "execute"
  /\ \E hour \in ConcHours :
       LET r == UseCaseExecute(inv[i].name, ValidatedInput(inv, i), hour)
           read == IF inv[i].name = "saludo" THEN hour ELSE NoClock
       IN inv' = [inv EXCEPT ![i] =
                    IF r.kind = "return"
                    THEN [@ EXCEPT !.pc = "done", !.clock = read, !.outcome = r]
                    ELSE [@ EXCEPT !.pc = "resolverCatch", !.clock = read,
                                   !.thrown = r.error]]
  /\ UNCHANGED seqVars

ConcResolverRethrow(i) ==
  /\ inv[i].pc = "resolverCatch"
  /\ inv' = [inv EXCEPT ![i] =
               [@ EXCEPT !.pc = "dispatcherCatch",
                         !.thrown = ResolverCatch(inv[i].name, inv[i].thrown)]]
  /\ UNCHANGED seqVars

ConcDispatcherRethrow(i) ==
  /\ inv[i].pc = "dispatcherCatch"
  /\ inv' = [inv EXCEPT ![i] =
               [@ EXCEPT !.pc = "handlerCatch",
                         !.thrown = DispatcherCatch(inv[i].name, inv[i].thrown)]]
  /\ UNCHANGED seqVars

ConcHandlerRethrow(i) ==
  /\ inv[i].pc = "handlerCatch"
  /\ inv' = [inv EXCEPT ![i] =
               [@ EXCEPT !.pc = "done",
                         !.outcome = Throw(HandlerCatch(inv[i].thrown))]]
  /\ UNCHANGED seqVars

\* the reply is sent and the call's locals are gone
ConcRespond(i) ==
  /\ inv[i].pc = "done"
  /\ inv' = [inv EXCEPT ![i] = IdleInvocation]
  /\ UNCHANGED seqVars

NextConc ==
  \/ \E i \in Invocations : \E req \in ConcRequests : ConcCallTool(i, req[1], req[2])
  \/ \E i \in Invocations : ConcDispatch(i)
  \/ \E i \in Invocations : ConcValidate(i)
  \/ \E i \in Invocations : ConcExecute(i)
  \/ \E i \in Invocations : ConcResolverRethrow(i)
  \/ \E i \in Invocations : ConcDispatcherRethrow(i)
  \/ \E i \in Invocations : ConcHandlerRethrow(i)
  \/ \E i \in Invocations : ConcRespond(i)

SpecConc == Init /\ [][NextConc]_vars

(***************************************************************************)
(* Properties.                                                             *)
(***************************************************************************)
Ran(method) == method \in Range(calls)
Registered == toolName \in Range(ToolNames)
\* the resolver's catch block has run
ResolverThrew == pc \in {"dispatcherCatch", "handlerCatch", "done"} /\ Ran("validateInput")
\* the orchestrator's catch block has run
DispatcherThrew == pc \in {"handlerCatch", "done"} /\ dispatcherError # NoError
ErrorCodes == {"MethodNotFound", "InvalidParams", "InternalError"}

\* C1: in an invocation of any of the three tools, execute() runs only after
\* validateInput has returned the value of a valid parse, and when the parse
\* of the raw arguments is not valid execute() is never called and the
\* resolver, the orchestrator and the handler fail with an InvalidParams
\* McpError.
C1_ValidationBeforeExecute ==
  entry = "CallTool" /\ Registered =>
    /\ Ran("execute") =>
         /\ calls = <<"validateInput", "execute">>
         /\ Schema(toolName, args).status = "valid"
         /\ validated = Schema(toolName, args).value
    /\ Ran("validateInput") /\ Schema(toolName, args).status # "valid" =>
         /\ ~Ran("execute")
         /\ pc # "execute"
         /\ ResolverThrew =>
              resolverError.class = "McpError" /\ resolverError.code = "InvalidParams"
         /\ pc = "done" =>
              /\ outcome.kind = "throw"
              /\ outcome.error.class = "McpError"
              /\ outcome.error.code = "InvalidParams"

C1_Witness ==
  /\ entry = "CallTool"
  /\ toolName = "calcular"
  /\ pc = "done"
  /\ Schema(toolName, args).status # "valid"
  /\ calls = <<"validateInput">>
  /\ outcome.kind = "throw"
  /\ outcome.error.code = "InvalidParams"

\* C2: a call with a name that is not registered fails with a MethodNotFound
\* McpError whose message contains every registered tool name, and neither
\* validateInput nor execute runs in that call.
C2_UnknownToolListsNames ==
  entry = "CallTool" /\ ~Registered =>
    /\ calls = <<>>
    /\ pc \notin {"validate", "execute", "resolverCatch"}
    /\ pc \in {"handlerCatch", "done"} =>
         /\ dispatcherError.class = "McpError"
         /\ dispatcherError.code = "MethodNotFound"
         /\ \A i \in 1..Len(ToolNames) : Contains(dispatcherError.message, ToolNames[i])
    /\ pc = "done" =>
         /\ outcome.kind = "throw"
         /\ outcome.error.code = "MethodNotFound"
         /\ \A i \in 1..Len(ToolNames) : Contains(outcome.error.message, ToolNames[i])

C2_Witness ==
  /\ entry = "CallTool"
  /\ toolName = "inexistente"
  /\ pc = "done"
  /\ outcome.kind = "throw"
  /\ outcome.error.code = "MethodNotFound"

\* C3: whatever the tool name and the raw arguments, a finished call is a
\* success envelope or a McpError with code MethodNotFound, InvalidParams or
\* InternalError, and every error ToolResolver.resolveAndExecute throws is
\* such a McpError: no ZodError or plain Error leaves the orchestrator.
C3_OnlyTypedFailures ==
  entry = "CallTool" =>
    /\ pc \in {"handlerCatch", "done"} /\ outcome.kind # "return" =>
         /\ dispatcherError.class = "McpError"
         /\ dispatcherError.code \in ErrorCodes
    /\ pc = "done" =>
         \/ /\ outcome.kind = "return"
            /\ Len(outcome.value) >= 1
            /\ dispatcherError = NoError
         \/ /\ outcome.kind = "throw"
            /\ outcome.error.class = "McpError"
            /\ outcome.error.code \in ErrorCodes

C3_Witness ==
  /\ entry = "CallTool"
  /\ pc = "done"
  /\ raised.class = "Error"
  /\ dispatcherError.class = "McpError"
  /\ dispatcherError.code = "InternalError"

\* calcular is invoked with a mapping whose operacion is one of the four,
\* whose a is a finite number and whose b is 0
ZeroDivisorCall(operacion) ==
  /\ entry = "CallTool"
  /\ toolName = "calcular"
  /\ args.obj
  /\ Get(args, "operacion") = Str(operacion)
  /\ Get(args, "a").t = "number"
  /\ Get(args, "b") = Num(0)

DivideByZeroError ==
  McpError("InvalidParams",
           "Errores de validación en herramienta 'calcular': b: No se puede dividir por cero")

\* C4: calcular with operacion = division and b = 0 fails with InvalidParams
\* reporting 'No se puede dividir por cero' on field b, never with
\* InternalError, and CalculatorUseCase.execute is not reached; with b = 0 and
\* any other operation the input is accepted and the call succeeds.
C4_DivideByZeroIsInvalidParams ==
  /\ ZeroDivisorCall("division") =>
       /\ ~Ran("execute")
       /\ pc # "execute"
       /\ ResolverThrew => resolverError = DivideByZeroError
       /\ pc = "done" => outcome = Throw(DivideByZeroError)
  /\ \A op \in Range(Operaciones) \ {"division"} :
       ZeroDivisorCall(op) =>
         /\ raised = NoError
         /\ Ran("validateInput") => pc \in {"execute", "done"}
         /\ pc = "done" => outcome.kind = "return"

C4_Witness ==
  /\ ZeroDivisorCall("division")
  /\ Get(args, "a") = Num(2)
  /\ pc = "done"
  /\ outcome = Throw(DivideByZeroError)

\* the parses of the declared fields of a tool, one by one, in schema order
Fields(tool, raw) ==
  CASE tool = "saludo" -> GreetingFields(raw)
    [] tool = "calcular" -> CalculatorFields(raw)
    [] tool = "fecha_actual" -> DateTimeFields(raw)

ViolatedFields(tool, raw) ==
  {i \in 1..Len(Fields(tool, raw)) : Fields(tool, raw)[i].issues # <<>>}

\* one 'path: message' text for every issue of every field, in schema order
RECURSIVE ExpectedEntries(_, _)
ExpectedEntries(results, i) ==
  IF i > Len(results) THEN <<>>
  ELSE [j \in 1..Len(results[i].issues) |->
          Join(results[i].issues[j].path, ".") \o ": " \o results[i].issues[j].message]
         \o ExpectedEntries(results, i + 1)

ValidationPrefix(tool) == "Errores de validación en herramienta '" \o tool \o "': "

\* C5: when two or more fields of the raw mapping violate the schema, the
\* InvalidParams message is the prefix naming the tool followed by one
\* 'path: message' entry for every violation, all of them, in schema order,
\* joined by '; '; calcular with {} reports operacion, a and b.
C5_AllViolationsReported ==
  /\ entry = "CallTool" /\ Registered /\ args.obj /\ ResolverThrew
       /\ Cardinality(ViolatedFields(toolName, args)) >= 2 =>
       /\ resolverError.code = "InvalidParams"
       /\ EndsWith(resolverError.message,
                   ValidationPrefix(toolName)
                     \o Join(ExpectedEntries(Fields(toolName, args), 1), "; "))
       /\ \A i \in ViolatedFields(toolName, args) :
            Contains(resolverError.message,
                     ExpectedEntries(<<Fields(toolName, args)[i]>>, 1)[1])
       /\ pc = "done" => outcome = Throw(resolverError)
  /\ entry = "CallTool" /\ toolName = "calcular" /\ args = RawObject(<<>>)
       /\ pc = "done" =>
       EndsWith(outcome.error.message,
                ValidationPrefix("calcular")
                  \o "operacion: La operación debe ser una de: suma, resta, multiplicacion, division"
                  \o "; a: Required; b: Required")

C5_Witness ==
  /\ entry = "CallTool"
  /\ toolName = "saludo"
  /\ pc = "done"
  /\ Get(args, "nombre") = Str("")
  /\ Get(args, "formal") = Num(123)
  /\ outcome.kind = "throw"
  /\ Contains(outcome.error.message, "nombre: El nombre no puede estar vacío; formal: ")

\* the fields of a calcular call are not all well-typed: the arguments are no
\* mapping, operacion is outside the enum, or a or b is missing or no number
IllTypedCalculatorCall ==
  /\ entry = "CallTool"
  /\ toolName = "calcular"
  /\ \/ ~args.obj
     \/ Get(args, "operacion") \notin {Str(op) : op \in Range(Operaciones)}
     \/ Get(args, "a").t \notin {"number", "infinity"}
     \/ Get(args, "b").t \notin {"number", "infinity"}

\* C6: the divide-by-zero rule of calcular is evaluated only when operacion, a
\* and b are each well-typed: otherwise no reported violation is 'No se puede
\* dividir por cero', even when b is 0 and operacion is division.
C6_RefinementNeedsWellTypedFields ==
  IllTypedCalculatorCall /\ ResolverThrew =>
    /\ resolverError.code = "InvalidParams"
    /\ ~Contains(resolverError.message, "No se puede dividir por cero")
    /\ \A i \in 1..Len(raised.issues) :
         raised.issues[i].message # "No se puede dividir por cero"
    /\ pc = "done" => ~Contains(outcome.error.message, "No se puede dividir por cero")

C6_Witness ==
  /\ IllTypedCalculatorCall
  /\ args.obj
  /\ Get(args, "operacion") = Str("division")
  /\ Get(args, "a") = Str("5")
  /\ Get(args, "b") = Num(0)
  /\ pc = "done"
  /\ EndsWith(outcome.error.message,
              ValidationPrefix("calcular") \o "a: Expected number, received string")

\* the use case of the invocation threw after validation had succeeded
UseCaseThrew ==
  /\ entry = "CallTool"
  /\ calls = <<"validateInput", "execute">>
  /\ raised # NoError

\* C7: an error raised by a use case after validation succeeded surfaces as an
\* InternalError McpError, never as InvalidParams, whose message names the
\* tool ('Error interno en herramienta <tool>') and includes the message of
\* the original error.
C7_UseCaseErrorIsInternalError ==
  UseCaseThrew /\ pc \in {"dispatcherCatch", "handlerCatch", "done"} =>
    /\ resolverError.class = "McpError"
    /\ resolverError.code = "InternalError"
    /\ Contains(resolverError.message,
                "Error interno en herramienta '" \o toolName \o "'")
    /\ Contains(resolverError.message, raised.message)
    /\ pc = "done" =>
         /\ outcome.kind = "throw"
         /\ outcome.error.code = "InternalError"
         /\ Contains(outcome.error.message, "Error interno en herramienta '" \o toolName \o "'")
         /\ Contains(outcome.error.message, raised.message)

C7_Witness ==
  /\ UseCaseThrew
  /\ toolName = "fecha_actual"
  /\ pc = "done"
  /\ raised.class = "Error"
  /\ StartsWith(raised.message, "Error al formatear la fecha: ")
  /\ outcome.error.code = "InternalError"

\* the number of places where sub occurs in s
Occurrences(s, sub) ==
  Cardinality({i \in 1..(Len(s) - Len(sub) + 1) : SubSeq(s, i, i + Len(sub) - 1) = sub})

\* C8: the McpError a tool resolver throws is what ToolResolver.resolveAndExecute
\* throws and what the CallTool handler throws, code and message unchanged
\* (and so is the orchestrator's own MethodNotFound error in the handler): the
\* failure is wrapped once and the tool-name prefix occurs once.
C8_McpErrorPassesThrough ==
  entry = "CallTool" =>
    /\ resolverError # NoError /\ resolverError.class = "McpError" =>
         /\ pc \in {"handlerCatch", "done"} => dispatcherError = resolverError
         /\ pc = "done" =>
              /\ outcome = Throw(resolverError)
              /\ Occurrences(outcome.error.message, "en herramienta '") = 1
    /\ pc = "done" /\ dispatcherError # NoError => outcome = Throw(dispatcherError)

C8_Witness ==
  /\ entry = "CallTool"
  /\ pc = "done"
  /\ resolverError.class = "McpError"
  /\ resolverError.code = "InternalError"
  /\ dispatcherError = resolverError
  /\ outcome = Throw(resolverError)

\* fecha_actual is invoked with a valid (or absent) formato and a zona_horaria
\* string that is no time-zone identifier the runtime knows
InvalidZoneCall ==
  /\ entry = "CallTool"
  /\ toolName = "fecha_actual"
  /\ args.obj
  /\ Get(args, "formato") \in {Undef} \cup {Str(f) : f \in Range(Formatos)}
  /\ Get(args, "zona_horaria").t = "string"
  /\ Get(args, "zona_horaria").s \notin KnownTimeZones

\* C9: for every formato (corto, largo, hora, completo, iso), fecha_actual with
\* an unrecognised zona_horaria ends in an InternalError whose message
\* contains 'Error al formatear la fecha', never in a success result.
C9_InvalidZoneIsExecutionError ==
  InvalidZoneCall /\ pc = "done" =>
    /\ outcome.kind = "throw"
    /\ outcome.error.code = "InternalError"
    /\ Contains(outcome.error.message, "Error al formatear la fecha")

\* C9, what the code does: the four formats rendered through toLocale...String
\* fail as claimed; iso never looks at the zone, succeeds and echoes it.
C9_OnlyIsoAcceptsInvalidZone ==
  InvalidZoneCall /\ pc = "done" =>
    IF validated["formato"] = Str("iso")
    THEN outcome = Return(TextContent("La fecha actual es: <iso UTC> (Zona horaria: "
                                        \o validated["zona_horaria"].s \o ")"))
    ELSE /\ outcome.kind = "throw"
         /\ outcome.error.code = "InternalError"
         /\ Contains(outcome.error.message, "Error al formatear la fecha")

\* CalculatorUseCase.execute is called directly with division and divisor 0
DirectZeroDivision ==
  /\ entry = "execute"
  /\ toolName = "calcular"
  /\ pc = "done"
  /\ validated["operacion"] = Str("division")
  /\ validated["b"] = Num(0)

\* C10: CalculatorUseCase.execute called directly (validator bypassed) with
\* operacion = division and b = 0 raises an error; it never returns a success
\* result for a zero divisor.
C10_UseCaseRejectsZeroDivisor ==
  DirectZeroDivision => outcome.kind = "throw"

\* C10, what the code does: a / 0 is computed, nothing is thrown and the text
\* of the success result ends in Infinity, -Infinity or NaN.
C10_UseCaseReturnsInfinity ==
  DirectZeroDivision =>
    /\ outcome.kind = "return"
    /\ \E t \in {"Infinity", "-Infinity", "NaN"} :
         outcome.value[1].text
           = "División: " \o ToString(validated["a"].n) \o " ÷ 0 = " \o t

\* the names of a list of descriptors, in order
Names(definitions) == [i \in 1..Len(definitions) |-> definitions[i].name]

\* C11: getToolDefinitions returns exactly three descriptors named saludo,
\* calcular, fecha_actual, in that order, on every call, and no invocation,
\* validation or lookup, successful or failed, changes the registry.
C11_DefinitionsStable ==
  /\ registry = Resolvers
  /\ Names(GetToolDefinitions(registry)) = <<"saludo", "calcular", "fecha_actual">>
  /\ entry = "getToolDefinitions" /\ pc = "done" =>
       /\ outcome.kind = "return"
       /\ Len(outcome.value) = 3
       /\ Names(outcome.value) = <<"saludo", "calcular", "fecha_actual">>

C11_Witness ==
  /\ entry = "getToolDefinitions"
  /\ pc = "done"
  /\ Names(outcome.value) = <<"saludo", "calcular", "fecha_actual">>

\* C12: getToolInfo(name) returns the descriptor whose name is name for each
\* registered tool and returns null, without throwing, for every other name.
C12_ToolInfoOrNull ==
  entry = "getToolInfo" /\ pc = "done" =>
    /\ outcome.kind = "return"
    /\ IF toolName \in {"saludo", "calcular", "fecha_actual"}
       THEN outcome.value # Null /\ outcome.value.name = toolName
       ELSE outcome.value = Null

C12_Witness ==
  /\ entry = "getToolInfo"
  /\ pc = "done"
  /\ toolName = "inexistente"
  /\ outcome = Return(Null)

\* validation ran on a mapping and accepted it
Accepted(tool) ==
  /\ entry \in {"CallTool", "validateInput"}
  /\ toolName = tool
  /\ Ran("validateInput")
  /\ validated # NoInput

\* validation ran and threw
Rejected(tool) ==
  /\ entry \in {"CallTool", "validateInput"}
  /\ toolName = tool
  /\ Ran("validateInput")
  /\ raised.class = "ZodError"

\* the caller of a finished CallTool invocation got InvalidParams
FailedWithInvalidParams ==
  entry = "CallTool" /\ pc = "done" =>
    outcome.kind = "throw" /\ outcome.error.class = "McpError"
      /\ outcome.error.code = "InvalidParams"

\* C13: formal given as a string becomes true exactly when its lower-cased
\* text is 'true' ('TRUE' gives true, 'False' and 'si' give false), a native
\* boolean is kept, and any other supplied value (123) is rejected with
\* InvalidParams.
C13_FormalCoercion ==
  LET formal == Get(args, "formal")
  IN /\ Accepted("saludo") =>
          /\ formal.t = "string" =>
               validated["formal"] = Bool(toLowerCase(formal.s) = "true")
          /\ formal \in {Str("true"), Str("TRUE")} => validated["formal"] = Bool(TRUE)
          /\ formal \in {Str("False"), Str("si")} => validated["formal"] = Bool(FALSE)
          /\ formal.t = "boolean" => validated["formal"] = formal
          /\ formal.t \in {"string", "boolean", "undefined"}
     /\ (toolName = "saludo" /\ Ran("validateInput") /\ args.obj
           /\ formal.t \notin {"string", "boolean", "undefined"}) =>
          /\ Rejected("saludo")
          /\ FailedWithInvalidParams

C13_Witness ==
  /\ Accepted("saludo")
  /\ Get(args, "formal") = Str("TRUE")
  /\ validated["formal"] = Bool(TRUE)

\* the defaults the schemas declare
SchemaDefaults(tool) ==
  CASE tool = "saludo" -> [formal |-> Bool(FALSE)]
    [] tool = "calcular" -> <<>>
    [] tool = "fecha_actual" ->
         [formato |-> Str("largo"), zona_horaria |-> Str("Europe/Madrid")]

SchemaKeys(tool) ==
  CASE tool = "saludo" -> {"nombre", "formal"}
    [] tool = "calcular" -> {"operacion", "a", "b"}
    [] tool = "fecha_actual" -> {"formato", "zona_horaria"}

\* C14: a successful validation returns every declared field: an omitted
\* optional field holds its default (formal false, formato 'largo',
\* zona_horaria 'Europe/Madrid') and a supplied field keeps the caller's value
\* (formal after its coercion).
C14_DefaultsFilled ==
  \A tool \in Range(ToolNames) :
    Accepted(tool) =>
      /\ DOMAIN validated = SchemaKeys(tool)
      /\ \A k \in SchemaKeys(tool) :
           LET given == Get(args, k)
           IN IF given = Undef
              THEN k \in DOMAIN SchemaDefaults(tool)
                     /\ validated[k] = SchemaDefaults(tool)[k]
              ELSE IF k = "formal" /\ given.t = "string"
              THEN validated[k].t = "boolean"
              ELSE validated[k] = given

C14_Witness ==
  /\ Accepted("fecha_actual")
  /\ Get(args, "formato") = Undef
  /\ Get(args, "zona_horaria") = Str("Asia/Tokyo")
  /\ validated = [formato |-> Str("largo"), zona_horaria |-> Str("Asia/Tokyo")]

\* validateInput ran for the tool, directly or inside a CallTool invocation
Validated(tool) ==
  /\ entry \in {"CallTool", "validateInput"}
  /\ toolName = tool
  /\ Ran("validateInput")

\* the ZodError raised holds the issue
Reported(path, message) ==
  /\ raised.class = "ZodError"
  /\ \E i \in 1..Len(raised.issues) : raised.issues[i] = Issue(path, message)

\* the ZodError raised holds an issue at the path
ReportedAt(path) ==
  /\ raised.class = "ZodError"
  /\ \E i \in 1..Len(raised.issues) : raised.issues[i].path = path

FormalWellTyped == Get(args, "formal").t \in {"string", "boolean", "undefined"}

\* C17: nombre is accepted exactly when it is a string of 1 to 100
\* characters; the empty string is rejected with 'El nombre no puede estar
\* vacío', 101 characters or more with 'El nombre es demasiado largo', a
\* missing or non-string nombre is rejected; lengths 1 and 100 are accepted.
C17_NombreBounds ==
  LET nombre == Get(args, "nombre")
  IN (Validated("saludo") /\ args.obj) =>
       /\ (FormalWellTyped =>
             (Accepted("saludo") <=>
                nombre.t = "string" /\ Len(nombre.s) >= 1 /\ Len(nombre.s) <= 100))
       /\ ~ReportedAt(<<"nombre">>) <=>
             (nombre.t = "string" /\ Len(nombre.s) >= 1 /\ Len(nombre.s) <= 100)
       /\ (nombre.t = "string" /\ Len(nombre.s) = 0) =>
             Reported(<<"nombre">>, "El nombre no puede estar vacío")
       /\ (nombre.t = "string" /\ Len(nombre.s) >= 101) =>
             Reported(<<"nombre">>, "El nombre es demasiado largo")
       /\ nombre.t # "string" => Rejected("saludo") /\ ReportedAt(<<"nombre">>)
       /\ Rejected("saludo") => FailedWithInvalidParams

C17_Witness ==
  /\ Accepted("saludo")
  /\ Len(Get(args, "nombre").s) = 100
  /\ validated["nombre"] = Get(args, "nombre")

\* C18: calcular accepts the arguments exactly when operacion is one of the
\* four names, a and b are finite numbers (a numeric string, NaN and Infinity
\* are rejected) and it is not a division with b = 0.
C18_CalculatorAcceptance ==
  LET operacion == Get(args, "operacion")
      a == Get(args, "a")
      b == Get(args, "b")
  IN Validated("calcular") =>
       /\ Accepted("calcular") <=>
            /\ args.obj
            /\ operacion \in {Str("suma"), Str("resta"), Str("multiplicacion"),
                              Str("division")}
            /\ a.t = "number"
            /\ b.t = "number"
            /\ ~(operacion = Str("division") /\ b = Num(0))
       /\ ~Accepted("calcular") => Rejected("calcular") /\ FailedWithInvalidParams
       /\ Accepted("calcular") =>
            validated = [operacion |-> operacion, a |-> a, b |-> b]

C18_Witness ==
  /\ Rejected("calcular")
  /\ Get(args, "operacion") = Str("suma")
  /\ Get(args, "a") = Str("5")
  /\ Get(args, "b") = Num(1)
  /\ pc = "done"

\* C19: fecha_actual accepts the arguments exactly when formato is absent or
\* one of the five names and zona_horaria is absent or any string; the zone
\* identifier is not checked at validation.
C19_DateTimeAcceptance ==
  LET formato == Get(args, "formato")
      zona == Get(args, "zona_horaria")
  IN Validated("fecha_actual") =>
       /\ Accepted("fecha_actual") <=>
            /\ args.obj
            /\ formato = Undef
                 \/ formato \in {Str("corto"), Str("largo"), Str("hora"),
                                 Str("completo"), Str("iso")}
            /\ zona = Undef \/ zona.t = "string"
       /\ ~Accepted("fecha_actual") =>
            Rejected("fecha_actual") /\ FailedWithInvalidParams

C19_Witness ==
  /\ Accepted("fecha_actual")
  /\ Get(args, "zona_horaria") = Str("Invalid/Timezone")
  /\ validated["zona_horaria"] = Str("Invalid/Timezone")

\* GreetingUseCase.execute returned, called directly or through the resolver
GreetingDone ==
  /\ entry \in {"CallTool", "execute"}
  /\ toolName = "saludo"
  /\ Ran("execute")
  /\ pc = "done"

\* the salutation of the band the hour falls in
Band(hour) ==
  IF hour < 12 THEN "Buenos días"
  ELSE IF hour < 18 THEN "Buenas tardes" ELSE "Buenas noches"

\* C20: the greeting is chosen from the hour read in that call: below 12
\* 'Buenos días', 12 to 17 'Buenas tardes', 18 and later 'Buenas noches';
\* formal = true gives the template without '¡' holding 'Es un placer
\* saludarle', formal = false the template starting with '¡'.
C20_GreetingBands ==
  GreetingDone =>
    /\ clock \in 0..23
    /\ outcome.kind = "return"
    /\ LET text == outcome.value[1].text
           formal == validated["formal"].b
           nombre == validated["nombre"].s
       IN /\ \A band \in {"Buenos días", "Buenas tardes", "Buenas noches"} :
               Contains(text, band) <=> band = Band(clock)
          /\ clock \in {0, 11} => Contains(text, "Buenos días")
          /\ clock \in {12, 17} => Contains(text, "Buenas tardes")
          /\ clock \in {18, 23} => Contains(text, "Buenas noches")
          /\ formal =>
               /\ ~Contains(text, "¡")
               /\ StartsWith(text, Band(clock) \o ", " \o nombre \o ". Es un placer saludarle.")
          /\ ~formal => StartsWith(text, "¡" \o Band(clock) \o " " \o nombre \o "!")

C20_Witness ==
  /\ GreetingDone
  /\ entry = "CallTool"
  /\ clock = 12
  /\ validated["formal"] = Bool(TRUE)
  /\ StartsWith(outcome.value[1].text, "Buenas tardes, ")

\* a finished CallTool invocation of a registered tool
ResolvedCall == entry = "CallTool" /\ pc = "done" /\ Registered

FailedWith(code) ==
  /\ outcome.kind = "throw"
  /\ resolverError.class = "McpError"
  /\ resolverError.code = code
  /\ outcome.error = resolverError

\* C15, as claimed: resolveAndExecute fails with InvalidParams exactly when
\* validateInput throws and otherwise has the outcome of
\* useCase.execute(validateInput(raw)), a thrown error included.
C15_OutcomeEqualsExecute ==
  ResolvedCall =>
    LET v == ToolResolverValidateInput(toolName, args)
    IN /\ FailedWith("InvalidParams") <=> v.kind = "throw"
       /\ v.kind = "return" => outcome = UseCaseExecute(toolName, v.value, clock)

\* C15, amended: validateInput on its own runs no use case; resolveAndExecute
\* fails with InvalidParams exactly when validateInput throws; otherwise it
\* returns what useCase.execute(validateInput(raw)) returns, and when execute
\* throws it fails with InternalError whose message ends with the message of
\* the error thrown.
C15_ValidateAgreesWithResolve ==
  /\ entry = "validateInput" =>
       /\ ~Ran("execute")
       /\ clock = NoClock
       /\ outcome = ToolResolverValidateInput(toolName, args)
  /\ ResolvedCall =>
       LET v == ToolResolverValidateInput(toolName, args)
           r == UseCaseExecute(toolName, v.value, clock)
       IN /\ FailedWith("InvalidParams") <=> v.kind = "throw"
          /\ v.kind = "throw" => ~Ran("execute")
          /\ v.kind = "return" =>
               IF r.kind = "return" THEN outcome = r
               ELSE /\ FailedWith("InternalError")
                    /\ EndsWith(outcome.error.message, ": " \o r.error.message)

C15_Witness ==
  /\ ResolvedCall
  /\ ToolResolverValidateInput(toolName, args).kind = "return"
  /\ UseCaseExecute(toolName, validated, clock).kind = "throw"
  /\ FailedWith("InternalError")

\* the handler run from the request to the reply with no other call in flight
Solo(name, raw, hour) ==
  IF name \notin Range(ToolNames)
  THEN Throw(HandlerCatch(DispatcherCatch(name, UnknownToolError(name))))
  ELSE LET v == ValidateInput(name, raw)
       IN IF v.kind = "throw"
          THEN Throw(HandlerCatch(DispatcherCatch(name, ResolverCatch(name, v.error))))
          ELSE LET r == UseCaseExecute(name, v.value, hour)
               IN IF r.kind = "return" THEN r
                  ELSE Throw(HandlerCatch(DispatcherCatch(name,
                               ResolverCatch(name, r.error))))

\* C16: under every interleaving of the steps of concurrent invocations, and
\* after any earlier invocations, a finished invocation has the outcome it
\* would have alone, which depends on its name, its arguments and its clock
\* reading only; the definitions the calls share are never changed.
C16_InvocationsIndependent ==
  /\ registry = Resolvers
  /\ \A i \in Invocations :
       inv[i].pc = "done" =>
         inv[i].outcome = Solo(inv[i].name, inv[i].args, inv[i].clock)

\* a greeting finished while another greeting with other arguments was
\* between its validation and its execution
C16_Witness ==
  \E i, j \in Invocations :
    /\ i # j
    /\ inv[i].name = "saludo" /\ inv[j].name = "saludo"
    /\ inv[i].args # inv[j].args
    /\ inv[i].pc = "done" /\ inv[i].outcome.kind = "return"
    /\ inv[j].pc = "execute"
    /\ inv[i].outcome = Solo(inv[i].name, inv[i].args, inv[i].clock)

\* CalculatorUseCase.execute returned, called directly or through the resolver
CalculatorDone ==
  /\ entry \in {"CallTool", "execute"}
  /\ toolName = "calcular"
  /\ Ran("execute")
  /\ pc = "done"
  /\ outcome.kind = "return"

\* the text after ' = ' in the line the calculator returns
Printed ==
  LET text == outcome.value[1].text
      at == CHOOSE i \in 1..Len(text) : SubSeq(text, i, i + 2) = " = "
  IN SubSeq(text, at + 3, Len(text))

\* the exact result of the operation on the validated operands
Exact ==
  LET a == validated["a"].n
      b == validated["b"].n
  IN CASE validated["operacion"].s = "suma" -> Finite(a + b, 1)
       [] validated["operacion"].s = "resta" -> Finite(a - b, 1)
       [] validated["operacion"].s = "multiplicacion" -> Finite(a * b, 1)
       [] validated["operacion"].s = "division" -> Divide(a, b)

\* the position of the decimal point in s, 0 when it has none
PointAt(s) ==
  IF \E i \in 1..Len(s) : SubSeq(s, i, i) = "."
  THEN CHOOSE i \in 1..Len(s) : SubSeq(s, i, i) = "." ELSE 0

Division(a, b) ==
  /\ validated["operacion"] = Str("division")
  /\ validated["a"] = Num(a)
  /\ validated["b"] = Num(b)

C22_QuotientTruncated ==
  (CalculatorDone /\ validated["operacion"] = Str("division")
     /\ Exact.kind = "finite" /\ ~IsInteger(Exact)) =>
    Printed = StripZeros(toFixed_Truncating(Exact, Precision))

\* what the code prints: the quotient rounded to the nearest at 6 decimals,
\* so 2/3 prints as 0.666667 and -2/3 as -0.666667
C22_QuotientRounded ==
  (CalculatorDone /\ validated["operacion"] = Str("division")
     /\ Exact.kind = "finite" /\ ~IsInteger(Exact)) =>
    /\ Printed = StripZeros(toFixed(Exact, Precision))
    /\ Division(2, 3) => Printed = "0.666667"
    /\ Division(0 - 2, 3) => Printed = "-0.666667"
    /\ Division(7, 3) => Printed = "2.333333"

\* C23: for every validated calcular input the result is one text item
\* '<Descripción>: a <símbolo> b = r' with (Suma, +, a+b), (Resta, -, a-b),
\* (Multiplicación, ×, a*b) or (División, ÷, a/b), a and b as given.
C23_CalculatorEnvelope ==
  (CalculatorDone /\ entry = "CallTool") =>
    LET a == Get(args, "a").n
        b == Get(args, "b").n
        op == Get(args, "operacion").s
        line(descripcion, simbolo, r) ==
          descripcion \o ": " \o ToString(a) \o " " \o simbolo \o " " \o ToString(b)
            \o " = " \o r
    IN /\ Len(outcome.value) = 1
       /\ outcome.value[1].type = "text"
       /\ op = "suma" => outcome.value[1].text = line("Suma", "+", ToString(a + b))
       /\ op = "resta" => outcome.value[1].text = line("Resta", "-", ToString(a - b))
       /\ op = "multiplicacion" =>
            outcome.value[1].text = line("Multiplicación", "×", ToString(a * b))
       /\ op = "division" =>
            /\ b # 0
            /\ outcome.value[1].text =
                 line("División", "÷", FormatResultado(Finite((IF b < 0 THEN -a ELSE a), Abs(b))))
            /\ (a >= 0 /\ b > 0 /\ a % b = 0) =>
                 outcome.value[1].text = line("División", "÷", ToString(a \div b))
       /\ op \in {"suma", "resta", "multiplicacion", "division"}

C23_Witness ==
  /\ CalculatorDone
  /\ entry = "CallTool"
  /\ outcome.value[1].text = "Multiplicación: -2 × 2 = -4"

\* DateTimeUseCase.execute returned, called directly or through the resolver
DateTimeDone ==
  /\ entry \in {"CallTool", "execute"}
  /\ toolName = "fecha_actual"
  /\ Ran("execute")
  /\ pc = "done"
  /\ outcome.kind = "return"

\* C24: a successful fecha_actual result is one text item that starts with
\* 'La fecha actual es: ' and ends with ' (Zona horaria: <zona>)' exactly
\* when the validated zona_horaria is not 'Europe/Madrid'.
C24_DateTimeEnvelope ==
  DateTimeDone =>
    LET text == outcome.value[1].text
        zona == validated["zona_horaria"].s
    IN /\ Len(outcome.value) = 1
       /\ outcome.value[1].type = "text"
       /\ StartsWith(text, "La fecha actual es: ")
       /\ EndsWith(text, " (Zona horaria: " \o zona \o ")") <=> zona # "Europe/Madrid"
       /\ zona = "Europe/Madrid" => ~Contains(text, "Zona horaria")

C24_Witness ==
  /\ DateTimeDone
  /\ entry = "CallTool"
  /\ Get(args, "zona_horaria") = Str("Europe/Madrid")
  /\ ~Contains(outcome.value[1].text, "Zona horaria")

\* arguments every schema accepts, with all the declared fields given
FullArgs(tool) ==
  CASE tool = "saludo" -> [nombre |-> Str("Ana"), formal |-> Bool(TRUE)]
    [] tool = "calcular" -> [operacion |-> Str("suma"), a |-> Num(1), b |-> Num(1)]
    [] tool = "fecha_actual" -> [formato |-> Str("corto"), zona_horaria |-> Str("UTC")]

\* the mapping without the key
Without(fields, key) == RawObject([k \in DOMAIN fields \ {key} |-> fields[k]])

\* the fields whose absence alone makes the tool's validateInput fail
NeededFields(tool) ==
  {k \in DOMAIN FullArgs(tool) :
     ValidateInput(tool, Without(FullArgs(tool), k)).kind = "throw"}

\* inputSchema.required, empty when the descriptor has no such key
RequiredOf(definition) ==
  IF definition.hasRequired THEN Range(definition.required) ELSE {}

\* C25: the required list of every advertised descriptor is the set of
\* fields whose absence makes validateInput fail ({nombre}; {operacion, a,
\* b}; none), and no field with a declared default is in it.
C25_RequiredMatchesValidation ==
  /\ \A i \in 1..Len(GetToolDefinitions(registry)) :
       LET definition == GetToolDefinitions(registry)[i]
       IN /\ ValidateInput(definition.name, RawObject(FullArgs(definition.name))).kind
               = "return"
          /\ RequiredOf(definition) = NeededFields(definition.name)
          /\ RequiredOf(definition) \cap DOMAIN definition.defaults = {}
  /\ RequiredOf(registry.greetingResolver) = {"nombre"}
  /\ RequiredOf(registry.calculatorResolver) = {"operacion", "a", "b"}
  /\ RequiredOf(registry.dateTimeResolver) = {}
  /\ \A tool \in Range(ToolNames) :
       (Validated(tool) /\ args.obj) =>
         LET definition == GetToolInfo(registry, tool).value
         IN /\ (\E k \in RequiredOf(definition) : Get(args, k) = Undef) => Rejected(tool)
            /\ Accepted(tool) => \A k \in RequiredOf(definition) : Get(args, k) # Undef

\* fecha_actual accepts the empty mapping: none of its fields is required
C25_Witness ==
  /\ Accepted("fecha_actual")
  /\ args = RawObject(<<>>)
  /\ RequiredOf(GetToolInfo(registry, "fecha_actual").value) = {}

\* the names getToolDefinitions lists
Listed == Range(Names(GetToolDefinitions(registry)))

\* C26: a name is listed (once) by getToolDefinitions exactly when
\* getToolInfo(name) is not null, exactly when resolveAndExecute(name, .)
\* does not fail with MethodNotFound, and exactly when
\* ToolResolver.validateInput(name, .) does not report an unknown tool; the
\* names in the MethodNotFound message are the listed names.
C26_DiscoveryAgreesWithDispatch ==
  /\ Cardinality(Listed) = Len(GetToolDefinitions(registry))
  /\ (entry = "getToolInfo" /\ pc = "done") =>
       (outcome.kind = "return" /\ outcome.value # Null <=> toolName \in Listed)
  /\ (entry = "CallTool" /\ pc = "done") =>
       ((outcome.kind = "throw" /\ outcome.error.code = "MethodNotFound")
          <=> toolName \notin Listed)
  /\ (entry = "validateInput" /\ pc = "done") =>
       ((outcome.kind = "throw" /\ outcome.error.class = "Error"
           /\ outcome.error.message = "Herramienta desconocida: " \o toolName)
          <=> toolName \notin Listed)
  /\ (entry = "CallTool" /\ pc = "done" /\ outcome.kind = "throw"
        /\ outcome.error.code = "MethodNotFound") =>
       EndsWith(outcome.error.message,
                "Herramientas disponibles: "
                  \o Join(Names(GetToolDefinitions(registry)), ", "))

C26_Witness ==
  /\ entry = "CallTool"
  /\ pc = "done"
  /\ toolName = "SALUDO"
  /\ toolName \notin Listed
  /\ outcome.error.code = "MethodNotFound"

\* the raw arguments without their undeclared keys
Declared(tool, raw) ==
  RawObject([k \in DOMAIN raw.f \cap SchemaKeys(tool) |-> raw.f[k]])

HasUndeclared(tool, raw) == raw.obj /\ DOMAIN raw.f \ SchemaKeys(tool) # {}

\* C27: undeclared keys have no effect: the validation outcome and the
\* result of the invocation are those of the arguments without these keys,
\* the validated value holds declared fields only, and an undeclared key is
\* never a validation failure, whatever additionalProperties says.
C27_UndeclaredKeysIgnored ==
  \A tool \in Range(ToolNames) :
    (Validated(tool) /\ HasUndeclared(tool, args)) =>
      LET plain == Declared(tool, args)
      IN /\ GetToolInfo(registry, tool).value.additionalProperties = FALSE
         /\ ValidateInput(tool, args) = ValidateInput(tool, plain)
         /\ Accepted(tool) <=> ValidateInput(tool, plain).kind = "return"
         /\ Accepted(tool) =>
              /\ DOMAIN validated = SchemaKeys(tool)
              /\ validated = ValidateInput(tool, plain).value
         /\ Rejected(tool) => raised = ValidateInput(tool, plain).error
         /\ (entry = "CallTool" /\ pc = "done") => outcome = Solo(tool, plain, clock)
         /\ (entry = "validateInput" /\ pc = "done") =>
              outcome = ValidateInput(tool, plain)

C27_Witness ==
  /\ entry = "CallTool"
  /\ pc = "done"
  /\ toolName = "saludo"
  /\ HasUndeclared("saludo", args)
  /\ "admin" \in DOMAIN args.f
  /\ outcome.kind = "return"
  /\ DOMAIN validated = {"nombre", "formal"}

\* C28: validation is idempotent: when validateInput(x) returns v,
\* validateInput(v) returns a value equal to v; coerced booleans and
\* substituted defaults are fixed points.
C28_ValidationIdempotent ==
  \A tool \in Range(ToolNames) :
    Accepted(tool) => ValidateInput(tool, RawObject(validated)) = Return(validated)

C28_Witness ==
  /\ Accepted("saludo")
  /\ Get(args, "formal") = Str("TRUE")
  /\ RawObject(validated) # args
  /\ ValidateInput("saludo", RawObject(validated)) = Return(validated)

\* the arguments of the call are undefined or not a mapping
NoMapping == ~args.obj

\* C29: when the arguments are absent or not a mapping, resolveAndExecute of
\* every registered tool, fecha_actual included, fails with InvalidParams for
\* a violation at the root (empty field path) and the use case is not run.
C29_AbsentArgumentsRejected ==
  (entry = "CallTool" /\ Registered /\ NoMapping) =>
    /\ ~Ran("execute")
    /\ Ran("validateInput") =>
         /\ raised.class = "ZodError"
         /\ Len(raised.issues) = 1
         /\ raised.issues[1].path = <<>>
    /\ pc = "done" =>
         /\ outcome.kind = "throw"
         /\ outcome.error.class = "McpError"
         /\ outcome.error.code = "InvalidParams"
         /\ StartsWith(FormatIssues(raised.issues), ": ")
         /\ EndsWith(outcome.error.message,
                     ValidationPrefix(toolName) \o FormatIssues(raised.issues))

C29_Witness ==
  /\ entry = "CallTool"
  /\ toolName = "fecha_actual"
  /\ args = RawValue(Undef)
  /\ pc = "done"
  /\ outcome.error.code = "InvalidParams"
  /\ ValidateInput("fecha_actual", RawObject(<<>>)).kind = "return"

\* the legacy server answered a call of calcular
LegacyCalcular == entry = "legacy" /\ toolName = "calcular" /\ pc = "done"

\* what the claim says manejarCalcular does with the arguments of the call
LegacyCalcularAsClaimed ==
  LET operacion == Get(args, "operacion")
      a == Get(args, "a")
      b == Get(args, "b")
  IN IF ~TypeofNumber(a) \/ ~TypeofNumber(b)
     THEN raised = Error("Los números deben ser valores numéricos")
     ELSE IF operacion = Str("division") /\ b = Num(0)
     THEN raised = Error("No se puede dividir por cero")
     ELSE IF operacion \notin {Str("suma"), Str("resta"), Str("multiplicacion"),
                               Str("division")}
     THEN raised = Error("Operación no válida")
     ELSE /\ raised = NoError
          /\ outcome.kind = "return"
          /\ Len(outcome.value) = 1
          /\ outcome.value[1].type = "text"
          /\ LET simbolo == CASE operacion.s = "suma" -> " + "
                              [] operacion.s = "resta" -> " - "
                              [] operacion.s = "multiplicacion" -> " × "
                              [] operacion.s = "division" -> " ÷ "
                 text == outcome.value[1].text
             IN /\ StartsWith(text, NumberToString(AsNumber(a)) \o simbolo
                                      \o NumberToString(AsNumber(b)) \o " = ")
                /\ (a.t = "number" /\ b.t = "number") =>
                     /\ operacion.s = "suma" => EndsWith(text, " = " \o ToString(a.n + b.n))
                     /\ operacion.s = "resta" => EndsWith(text, " = " \o ToString(a.n - b.n))
                     /\ operacion.s = "multiplicacion" =>
                          EndsWith(text, " = " \o ToString(a.n * b.n))
                     /\ (operacion.s = "division" /\ a.n >= 0 /\ b.n > 0
                           /\ a.n % b.n = 0) =>
                          EndsWith(text, " = " \o ToString(a.n \div b.n))
                     /\ (operacion.s = "division" /\ a.n = 1 /\ b.n = 2) =>
                          text = "1 ÷ 2 = 0.5"

\* the legacy server turns a plain error into InvalidParams and an unknown
\* name into MethodNotFound
LegacyServerErrors ==
  entry = "legacy" /\ pc = "done" =>
    /\ toolName \notin {"saludo", "calcular", "fecha_actual"} =>
         /\ outcome.kind = "throw"
         /\ outcome.error.class = "McpError"
         /\ outcome.error.code = "MethodNotFound"
    /\ (raised # NoError /\ raised.class # "McpError") =>
         /\ outcome.kind = "throw"
         /\ outcome.error.class = "McpError"
         /\ outcome.error.code = "InvalidParams"
         /\ EndsWith(outcome.error.message, raised.message)

====
